---- MODULE Spec2Model ----
(***************************************************************************)
(* A model of the asset-doctor rebalancing engine                          *)
(* (assetdoctor/PortfolioRebalancer.py, Portfolio.py, PriceLookup.py).     *)
(*                                                                         *)
(* Numbers.  Python quantities, prices and dollar values are ints and      *)
(* floats (IEEE-754 binary64), so every finite value is a dyadic rational. *)
(* The model holds it exactly, with its type: a float as <<n, d>>, d a     *)
(* power of two, in lowest terms, while n and d fit in 30 bits, and as     *)
(* <<s, e, m>> (sign, exponent, odd mantissa in limbs) beyond; an int as   *)
(* <<n, 0>> and <<s, e, m, 0>>, of any size; inf, -inf and nan are values  *)
(* of their own.  Ints are computed exactly: their sums, differences and   *)
(* products are ints.  An operation on floats rounds its exact result as   *)
(* the float operation does, to 53 bits, to nearest with ties to even,     *)
(* within the exponent range of binary64 (subnormals below 2^-1022, inf    *)
(* from 2^1024 on): 0.07 * 100 is 7.000000000000001 in the model as in the *)
(* code.  An int that meets a float is converted to a float first, and the *)
(* quotient of two ints is the float nearest to it.  An operation that     *)
(* raises in Python (a division by zero, an int too large for a float,     *)
(* round, ceil and floor of inf and nan) raises in the model.  The limb    *)
(* arithmetic on natural numbers is the mathematics this needs and has no  *)
(* counterpart in the source.  The properties compute with the same        *)
(* operations, in the order they name them, and compare numbers as         *)
(* Python's == does, by value.  The inputs take the prices of the tests    *)
(* (AAA 100, BBB 200) and a third ticker CCC at one dollar.                *)
(*                                                                         *)
(* Dictionaries.  A Python dict that the code iterates (Portfolio          *)
(* positions, the deltas map, the rebalanced map) is a sequence of         *)
(* entries in insertion order; the price dict is only looked up and is a   *)
(* function on the priced tickers.                                         *)
(*                                                                         *)
(* Two state machines share the variables.  Spec is one engine: prices,    *)
(* options, tolerance, live_portfolio and model_portfolio are its          *)
(* attributes.  The engine keeps the objects it is given, not copies: a    *)
(* Portfolio given to a setter stays the caller's object, and add_position *)
(* on it changes the portfolio the engine reads; add_price on the          *)
(* PriceLookup given to the constructor changes the prices the engine      *)
(* reads.                                                                  *)
(*                                                                         *)
(* Objects.  A Portfolio is an object with an identity: live_portfolio and *)
(* model_portfolio are the contents of the objects the two attributes      *)
(* hold, and live_is_model tells that the two hold one and the same        *)
(* object.  Within a call the objects are named: Portfolio() makes an      *)
(* object that is none of those in use, add_position writes to the object  *)
(* it is called on and so shows under every attribute that holds it, and   *)
(* the state after the call takes the contents of the attributes from the  *)
(* objects as the call left them.  result.object is the identity of the    *)
(* Portfolio the call built.                                               *)
(* ContainerSpec is the construction of the containers:                    *)
(* prices is a PriceLookup under add_price, built_portfolio a Portfolio    *)
(* under add_position, builder a ModelPortfolioBuilder that reads prices.  *)
(***************************************************************************)
EXTENDS Integers, Sequences, FiniteSets, TLC

VARIABLES prices, options, tolerance, live_portfolio, model_portfolio,
          live_is_model, result, built_portfolio, builder

vars == <<prices, options, tolerance, live_portfolio, model_portfolio,
          live_is_model, result, built_portfolio, builder>>

----------------------------------------------------------------------------
(* Natural numbers of any size: little-endian sequences of 15-bit limbs,   *)
(* <<>> for zero, no zero limb on top.                                     *)

LimbBits == 15
Base == 32768
MantissaBits == 53
SmallBits == 30
MaxExponent == 1024
MinExponent == -1074

IAbs(i) == IF i < 0 THEN -i ELSE i
IMin(i, j) == IF i < j THEN i ELSE j
IMax(i, j) == IF i > j THEN i ELSE j

\* the number of bits of a limb, and the number of its low zero bits
BitLength == [i \in 0..(Base - 1) |-> CHOOSE k \in 0..LimbBits : i < 2^k /\ (k = 0 \/ i >= 2^(k - 1))]
LowZeros == [i \in 1..(Base - 1) |-> CHOOSE k \in 0..(LimbBits - 1) : i % 2^k = 0 /\ i % 2^(k + 1) # 0]

\* the limbs of i below its top limb, and its top limb, 0 <= i < 2^31
LimbsBelow(i) == IF i < Base THEN 0 ELSE IF i < Base * Base THEN 1 ELSE 2
TopLimb(i, n) == IF n = 0 THEN i ELSE IF n = 1 THEN i \div Base ELSE i \div (Base * Base)

\* the number of bits of i, 0 <= i < 2^31
IntBitsAt(i, n) == LimbBits * n + BitLength[TopLimb(i, n)]
IntBits(i) == IntBitsAt(i, LimbsBelow(i))

\* the number of low zero bits of i, 0 < i < 2^31
ZeroLimbs(i) == IF i % Base # 0 THEN 0 ELSE IF (i \div Base) % Base # 0 THEN 1 ELSE 2
IntTrailingZerosAt(i, n) == LimbBits * n + LowZeros[TopLimb(i, n) % Base]
IntTrailingZeros(i) == IntTrailingZerosAt(i, ZeroLimbs(i))

Limb(a, i) == IF i >= 1 /\ i <= Len(a) THEN a[i] ELSE 0

\* a without the zero limbs on top
RECURSIVE NNorm(_)
NNorm(a) == IF a # <<>> /\ a[Len(a)] = 0 THEN NNorm(SubSeq(a, 1, Len(a) - 1)) ELSE a

\* the index of the highest limb where a and b of one length differ, 0 when
\* they are equal
NTopOf(nz) == IF nz = {} THEN 0 ELSE CHOOSE i \in nz : \A j \in nz : j <= i

\* the limbs of i, 0 <= i < 2^31, and the integer of a number below 2^30
NFromInt(i) == IF i = 0 THEN <<>> ELSE IF i < Base THEN <<i>> ELSE IF i < Base * Base THEN <<i % Base, i \div Base>> ELSE <<i % Base, (i \div Base) % Base, i \div (Base * Base)>>
NToInt(a) == Limb(a, 1) + Base * Limb(a, 2)

NCmpAt(a, b, m) == IF m = 0 THEN 0 ELSE IF a[m] < b[m] THEN -1 ELSE 1
NCmp(a, b) ==
    IF Len(a) < Len(b) THEN -1
    ELSE IF Len(a) > Len(b) THEN 1
    ELSE NCmpAt(a, b, NTopOf({i \in 1..Len(a) : a[i] # b[i]}))

\* the limbs of the number whose columns are c, lowest first, each column an
\* integer of either sign; the last entry is the carry out of the top
\* column, negative when the number is.  The columns lo..hi with the carry k
\* into column lo give <<their limbs, the carry out of column hi>>, the lower
\* half of the columns first and the upper half with its carry.
RECURSIVE NCarryRange(_, _, _, _)
NCarryJoin(t, upper) == <<t \o upper[1], upper[2]>>
NCarryUpper(c, mid, hi, lower) == NCarryJoin(lower[1], NCarryRange(c, mid + 1, hi, lower[2]))
NCarryRange(c, lo, hi, k) ==
    IF lo > hi THEN <<<<>>, k>>
    ELSE IF lo = hi THEN <<<<(c[lo] + k) % Base>>, (c[lo] + k) \div Base>>
    ELSE NCarryUpper(c, (lo + hi) \div 2, hi, NCarryRange(c, lo, (lo + hi) \div 2, k))

NCarryOut(r) == Append(r[1], r[2])
NCarry(c) == NCarryOut(NCarryRange(c, 1, Len(c), 0))

\* the limbs of a carried number t that is not negative
NLimbs(t) == NNorm(SubSeq(t, 1, Len(t) - 1))

NAdd(a, b) == NLimbs(NCarry([i \in 1..(IMax(Len(a), Len(b)) + 1) |-> Limb(a, i) + Limb(b, i)]))

\* a - b for a >= b
NSub(a, b) == NLimbs(NCarry([i \in 1..(Len(a) + 1) |-> Limb(a, i) - Limb(b, i)]))

\* the low and the high half of the limb product a[i] * k
MulLo(a, i, k) == (Limb(a, i) * k) % Base
MulHi(a, i, k) == (Limb(a, i) * k) \div Base

\* a * k for one limb k
NMulLimb(a, k) == NLimbs(NCarry([i \in 1..(Len(a) + 2) |-> MulLo(a, i, k) + MulHi(a, i - 1, k)]))

\* a * b: column i takes the low halves of the products a[i + 1 - j] * b[j]
\* and the high halves of the ones a column below, for the limbs j = lo..hi
\* of b
RECURSIVE MulColumnRange(_, _, _, _, _)
MulColumnRange(a, b, i, lo, hi) ==
    IF lo > hi THEN 0
    ELSE IF lo = hi THEN MulLo(a, i + 1 - lo, b[lo]) + MulHi(a, i - lo, b[lo])
    ELSE MulColumnRange(a, b, i, lo, (lo + hi) \div 2) + MulColumnRange(a, b, i, (lo + hi) \div 2 + 1, hi)

MulColumn(a, b, i) == MulColumnRange(a, b, i, IMax(1, i - Len(a)), IMin(i, Len(b)))

NMul(a, b) == NLimbs(NCarry([i \in 1..(Len(a) + Len(b) + 1) |-> MulColumn(a, b, i)]))

NShiftLimbs(a, n) == [i \in 1..n |-> 0] \o a

\* a * 2^k
NShl(a, k) == NNorm(NShiftLimbs(NMulLimb(a, 2^(k % LimbBits)), k \div LimbBits))

\* floor(a / 2^k)
NShrBy(a, q, r) ==
    IF q >= Len(a) THEN <<>>
    ELSE NNorm(<<>> \o [i \in 1..(Len(a) - q) |->
                              Limb(a, i + q) \div 2^r + (Limb(a, i + q + 1) % 2^r) * 2^(LimbBits - r)])
NShr(a, k) == NShrBy(a, k \div LimbBits, k % LimbBits)

NBits(a) ==
    IF a = <<>> THEN 0 ELSE LimbBits * (Len(a) - 1) + BitLength[a[Len(a)]]

\* bit i of a, bit 0 the lowest
NBit(a, i) == (Limb(a, i \div LimbBits + 1) \div 2^(i % LimbBits)) % 2

\* the k lowest bits of a are zero
NLowZero(a, k) ==
    /\ \A i \in 1..(k \div LimbBits) : Limb(a, i) = 0
    /\ Limb(a, k \div LimbBits + 1) % 2^(k % LimbBits) = 0

\* the number of low zero bits of a > 0
NLowLimb(a) == CHOOSE i \in 1..Len(a) : a[i] # 0 /\ \A j \in 1..(i - 1) : a[j] = 0
NTrailingZerosAt(a, i) == LimbBits * (i - 1) + LowZeros[a[i]]
NTrailingZeros(a) == NTrailingZerosAt(a, NLowLimb(a))

\* quotient and remainder of a by one limb d > 0, from the top limb down;
\* st is <<the limbs left, the remainder, the quotient>> so far
RECURSIVE NDivLimbFrom(_, _, _)
NDivLimbFrom(a, d, st) ==
    IF st[1] = 0 THEN [q |-> NNorm(st[3]), r |-> NFromInt(st[2])]
    ELSE NDivLimbFrom(a, d, <<st[1] - 1, (st[2] * Base + a[st[1]]) % d, <<(st[2] * Base + a[st[1]]) \div d>> \o st[3]>>)

NDivLimb(a, d) == NDivLimbFrom(a, d, <<Len(a), 0, <<>>>>)

\* rem - b * d with its carry out: negative when the digit d is too large
NDigitRest(rem, b, d) ==
    NCarry([i \in 1..(Len(b) + 1) |-> Limb(rem, i) - MulLo(b, i, d) - MulHi(b, i - 1, d)])

\* the quotient digit of rem by b and what it leaves, rem < b * Base and the
\* top limb of b at least Base / 2: the estimate q from the top limbs is at
\* most 2 too large
NFixDigit2(q, t) == <<q, NLimbs(t)>>
NFixDigit1(rem, b, q, t) == IF t[Len(t)] >= 0 THEN <<q, NLimbs(t)>> ELSE NFixDigit2(q - 1, NDigitRest(rem, b, q - 1))
NFixDigit(rem, b, q, t) == IF t[Len(t)] >= 0 THEN <<q, NLimbs(t)>> ELSE NFixDigit1(rem, b, q - 1, NDigitRest(rem, b, q - 1))
NEstimate(rem, b) == IMin(Base - 1, (Limb(rem, Len(b) + 1) * Base + Limb(rem, Len(b))) \div b[Len(b)])
NDigitBy(rem, b, q) == NFixDigit(rem, b, q, NDigitRest(rem, b, q))
NDigit(rem, b) == NDigitBy(rem, b, NEstimate(rem, b))

\* long division of a by b, from the top limb of a down; st is <<the limbs
\* left, the remainder, the quotient>> so far
NLongDivStep(i, dr, q) == <<i, dr[2], <<dr[1]>> \o q>>

RECURSIVE NLongDivFrom(_, _, _)
NLongDivFrom(a, b, st) ==
    IF st[1] = 0 THEN [q |-> NNorm(st[3]), r |-> st[2]]
    ELSE NLongDivFrom(a, b, NLongDivStep(st[1] - 1, NDigit(NNorm(<<a[st[1]]>> \o st[2]), b), st[3]))

NLongDivShifted(a, b) ==
    NLongDivFrom(a, b, <<Len(a) - Len(b) + 1, SubSeq(a, Len(a) - Len(b) + 2, Len(a)), <<>>>>)

\* quotient of a by b > 0 and whether a remainder is left
NDivMod(a, b) ==
    IF Len(b) = 1 THEN NDivLimb(a, b[1])
    ELSE IF Len(a) < Len(b) THEN [q |-> <<>>, r |-> a]
    ELSE NLongDivShifted(NShl(a, LimbBits - BitLength[b[Len(b)]]), NShl(b, LimbBits - BitLength[b[Len(b)]]))

----------------------------------------------------------------------------
(* Python numbers.  A finite number of the program is an int or a float,   *)
(* and its value a dyadic number s * m * 2^e.  A value is held as <<n, d>> *)
(* (n / d in lowest terms, d a power of two) when n is below 2^30 and d at *)
(* most 2^30, and as <<s, e, m>> with m an odd natural otherwise; equal    *)
(* values have equal representations.  A float is held as its value; the   *)
(* floats inf and -inf are <<1>> and <<-1>>, nan is <<0>>.  The two zeros  *)
(* 0.0 and -0.0, equal in every comparison and every operation of the      *)
(* program, are the one zero <<0, 1>>.  An int is held with the mark of    *)
(* its type: <<n, 0>> for n below 2^30 and <<s, e, m, 0>> beyond, of any   *)
(* size.  The operators do what Python's do: the sum, the difference and   *)
(* the product of two ints are ints, exact; an int that meets a float is   *)
(* converted to the nearest float first, which raises OverflowError from   *)
(* 2^1024 on; the quotient of two ints is the float nearest to the exact   *)
(* quotient; round, math.ceil and math.floor give ints; a comparison of an *)
(* int with a float compares the values.  Where the Python operation       *)
(* raises, the operator yields NoNumber, and the code that calls it is     *)
(* modelled with the exception.                                            *)

\* k for d = 2^k
Log2(d) == IntBits(d) - 1

Inf(s) == <<s>>
NaN == <<0>>
NoNumber == <<>>

IsInt(a) == Len(a) = 4 \/ (Len(a) = 2 /\ a[2] = 0)
IsFinite(a) == Len(a) > 1
IsNaN(a) == a = NaN
IsInf(a) == Len(a) = 1 /\ a[1] # 0
IsZero(a) == Len(a) = 2 /\ a[1] = 0

\* the value of a number, and the int of a whole value
Value(a) ==
    IF Len(a) = 4 THEN <<a[1], a[2], a[3]>>
    ELSE IF Len(a) = 2 /\ a[2] = 0 THEN <<a[1], 1>>
    ELSE a
IntOf(v) == IF Len(v) = 2 THEN <<v[1], 0>> ELSE <<v[1], v[2], v[3], 0>>

\* sign, mantissa and exponent of a value
IsSmall(a) == Len(a) = 2
Sign(a) == IF IsSmall(a) THEN (IF a[1] < 0 THEN -1 ELSE 1) ELSE a[1]
Mant(a) == IF IsSmall(a) THEN NFromInt(IAbs(a[1])) ELSE a[3]
Expo(a) == IF IsSmall(a) THEN -Log2(a[2]) ELSE a[2]

\* the value s * m * 2^e, m odd
PackOddOf(s, m, e, bits) ==
    IF bits <= SmallBits /\ e >= 0 /\ bits + e <= SmallBits
    THEN <<s * NToInt(m) * 2^e, 1>>
    ELSE IF bits <= SmallBits /\ e < 0 /\ -e <= SmallBits
    THEN <<s * NToInt(m), 2^(-e)>>
    ELSE <<s, e, m>>
PackOdd(s, m, e) == PackOddOf(s, m, e, NBits(m))

PackShift(s, m, e, tz) == PackOdd(s, NShr(m, tz), e + tz)

\* the value s * m * 2^e
Pack(s, m, e) == IF m = <<>> THEN <<0, 1>> ELSE PackShift(s, m, e, NTrailingZeros(m))

\* m with its drop lowest bits rounded away, to nearest, a tie to even
RoundsUp(m, drop) == NBit(m, drop - 1) = 1 /\ (~NLowZero(m, drop - 1) \/ NBit(m, drop) = 1)
RoundBits(m, drop) ==
    IF drop = 0 THEN m
    ELSE NAdd(NShr(m, drop), IF RoundsUp(m, drop) THEN <<1>> ELSE <<>>)

\* the bits of m * 2^e that a float does not hold: those beyond the 53 of
\* the mantissa and those below 2^-1074, the last place of the subnormals
DropBits(m, e) == IMax(0, IMax(NBits(m) - MantissaBits, MinExponent - e))

\* a rounded s * m * 2^e: inf from 2^1024 on
InRange(s, m, e) == IF NBits(m) + e > MaxExponent THEN Inf(s) ELSE Pack(s, m, e)

FloatBy(s, m, e, drop) == InRange(s, RoundBits(m, drop), e + drop)

\* the float nearest to s * m * 2^e (round to nearest, ties to even): inf
\* when that is 2^1024 or more, zero when it is below the subnormals
Float(s, m, e) == FloatBy(s, m, e, DropBits(m, e))

\* -1, 0, 1 as |a| is below, equal to, above |b|, for two values
CmpAbsAt(a, b, e) ==
    NCmp(NShl(Mant(a), Expo(a) - e), NShl(Mant(b), Expo(b) - e))

IsTiny(a) == IsSmall(a) /\ IAbs(a[1]) < Base /\ a[2] <= Base

\* n / d in lowest terms, d = 2^k
DyadicBy(n, d, j) == <<n \div 2^j, d \div 2^j>>
Dyadic(n, d) ==
    IF d = 1 THEN <<n, 1>>
    ELSE IF n = 0 THEN <<0, 1>>
    ELSE DyadicBy(n, d, IMin(IntTrailingZeros(IAbs(n)), Log2(d)))

FitsSmall(r) == IAbs(r[1]) < 2^SmallBits

\* the int i
Int2Rat(i) ==
    IF FitsSmall(<<i, 1>>) THEN <<i, 0>>
    ELSE IntOf(Pack(IF i < 0 THEN -1 ELSE 1, NFromInt(IAbs(i)), 0))

\* the float 0.0
Zero == <<0, 1>>

\* a float that is not inf, or else no number
Finite(x) == IF IsInf(x) THEN NoNumber ELSE x

\* float(a) for an int a, no number where Python raises OverflowError; a
\* float is itself
ToFloat(a) ==
    IF Len(a) = 4 THEN Finite(Float(a[1], a[3], a[2]))
    ELSE IF Len(a) = 2 /\ a[2] = 0 THEN <<a[1], 1>>
    ELSE a

\* the int a is too large to convert to float
Overflows(a) == Len(a) = 4 /\ ToFloat(a) = NoNumber

\* -a and abs(a), of the type of a; of no number, no number
RNeg(a) ==
    IF Len(a) = 2 THEN <<-a[1], a[2]>>
    ELSE IF Len(a) = 3 THEN <<-a[1], a[2], a[3]>>
    ELSE IF Len(a) = 4 THEN <<-a[1], a[2], a[3], 0>>
    ELSE IF Len(a) = 1 THEN <<-a[1]>>
    ELSE a
RAbs(a) ==
    IF Len(a) = 2 THEN <<IAbs(a[1]), a[2]>>
    ELSE IF Len(a) = 3 THEN <<1, a[2], a[3]>>
    ELSE IF Len(a) = 4 THEN <<1, a[2], a[3], 0>>
    ELSE IF Len(a) = 1 THEN <<IAbs(a[1])>>
    ELSE a

\* a == b: the values are compared, an int with a float as well; nan is
\* equal to nothing, itself included
REq(a, b) == Value(a) = Value(b) /\ ~IsNaN(a)

\* the position above the highest bit of |a|, a not zero
TopBit(a) == NBits(Mant(a)) + Expo(a)

\* |a| < |b| for two values not zero: by their highest bits, else digit by
\* digit
LtAbsAt(a, b, ta, tb) ==
    IF ta # tb THEN ta < tb ELSE CmpAbsAt(a, b, IMin(Expo(a), Expo(b))) < 0
LtAbs(a, b) == LtAbsAt(a, b, TopBit(a), TopBit(b))

\* a < b of two finite values
LtWide(a, b) ==
    IF IsZero(a) THEN (~IsZero(b) /\ Sign(b) = 1)
    ELSE IF IsZero(b) THEN Sign(a) = -1
    ELSE IF Sign(a) # Sign(b) THEN Sign(a) = -1
    ELSE LtAbs(IF Sign(a) = 1 THEN a ELSE b, IF Sign(a) = 1 THEN b ELSE a)

\* a < b when one of them is inf, -inf or nan: nan is below nothing and
\* nothing is below it
LtSpecial(a, b) ==
    /\ ~IsNaN(a) /\ ~IsNaN(b) /\ a # b
    /\ IF IsInf(a) THEN a[1] = -1 ELSE b[1] = 1

\* a < b of two values
LtValue(a, b) ==
    IF ~IsFinite(a) \/ ~IsFinite(b) THEN LtSpecial(a, b)
    ELSE IF IsTiny(a) /\ IsTiny(b) THEN a[1] * b[2] < b[1] * a[2]
    ELSE LtWide(a, b)

\* a < b and a > b: Python compares an int with a float by their values
RLt(a, b) == LtValue(Value(a), Value(b))
RGt(a, b) == RLt(b, a)

\* sign and mantissa of the sum of two numbers with mantissas ma, mb at one
\* exponent
SumAt(sa, ma, sb, mb) ==
    IF sa = sb THEN <<sa, NAdd(ma, mb)>>
    ELSE IF NCmp(ma, mb) >= 0 THEN <<sa, NSub(ma, mb)>>
    ELSE <<sb, NSub(mb, ma)>>

SumWideAt(a, b, e) ==
    SumAt(Sign(a), NShl(Mant(a), Expo(a) - e), Sign(b), NShl(Mant(b), Expo(b) - e))

\* the sum of two values not zero, exact, as <<sign and mantissa, exponent>>
SumWide(a, b) == <<SumWideAt(a, b, IMin(Expo(a), Expo(b))), IMin(Expo(a), Expo(b))>>

FloatOfSum(sm) == Float(sm[1][1], sm[1][2], sm[2])

\* an operand below a quarter of the last place of the other is rounded away
AddFar(a, b, ta, tb) ==
    IF ta - tb > MantissaBits + 2 THEN a
    ELSE IF tb - ta > MantissaBits + 2 THEN b
    ELSE FloatOfSum(SumWide(a, b))

AddWide(a, b) ==
    IF IsZero(a) THEN b ELSE IF IsZero(b) THEN a
    ELSE AddFar(a, b, TopBit(a), TopBit(b))

\* the sum of two small values is exact when it is small
SumTiny(a, b) == Dyadic(a[1] * b[2] + b[1] * a[2], a[2] * b[2])

\* a + b when one of them is inf, -inf or nan: inf + -inf is nan
AddSpecial(a, b) ==
    IF IsNaN(a) \/ IsNaN(b) THEN NaN
    ELSE IF IsFinite(a) THEN b
    ELSE IF IsFinite(b) \/ a = b THEN a
    ELSE NaN

\* a + b of two floats, no number when one of them is none
FloatAdd(a, b) ==
    IF a = NoNumber \/ b = NoNumber THEN NoNumber
    ELSE IF ~IsFinite(a) \/ ~IsFinite(b) THEN AddSpecial(a, b)
    ELSE IF IsTiny(a) /\ IsTiny(b) /\ FitsSmall(SumTiny(a, b)) THEN SumTiny(a, b)
    ELSE AddWide(a, b)

IntOfSum(sm) == IntOf(Pack(sm[1][1], sm[1][2], sm[2]))

\* a + b of two ints, exact
IntAdd(a, b) ==
    IF Len(a) = 2 /\ Len(b) = 2 THEN Int2Rat(a[1] + b[1])
    ELSE IF IsZero(a) THEN b ELSE IF IsZero(b) THEN a
    ELSE IntOfSum(SumWide(Value(a), Value(b)))

\* a + b; the conversion of an int to float may raise OverflowError
RAdd(a, b) ==
    IF IsInt(a) /\ IsInt(b) THEN IntAdd(a, b)
    ELSE FloatAdd(ToFloat(a), ToFloat(b))
RSub(a, b) == RAdd(a, RNeg(b))

MulWide(a, b) ==
    IF IsZero(a) \/ IsZero(b) THEN Zero
    ELSE Float(Sign(a) * Sign(b), NMul(Mant(a), Mant(b)), Expo(a) + Expo(b))

\* a * b when one of them is inf, -inf or nan: inf * 0 is nan
MulSpecial(a, b) ==
    IF IsNaN(a) \/ IsNaN(b) \/ IsZero(a) \/ IsZero(b) THEN NaN
    ELSE Inf(Sign(a) * Sign(b))

\* a * b of two floats, no number when one of them is none
FloatMul(a, b) ==
    IF a = NoNumber \/ b = NoNumber THEN NoNumber
    ELSE IF ~IsFinite(a) \/ ~IsFinite(b) THEN MulSpecial(a, b)
    ELSE IF IsTiny(a) /\ IsTiny(b) THEN Dyadic(a[1] * b[1], a[2] * b[2])
    ELSE MulWide(a, b)

IntMulWide(a, b) ==
    IntOf(Pack(Sign(a) * Sign(b), NMul(Mant(a), Mant(b)), Expo(a) + Expo(b)))

\* a * b of two ints, exact
IntMul(a, b) ==
    IF IsZero(a) \/ IsZero(b) THEN <<0, 0>>
    ELSE IF IsTiny(Value(a)) /\ IsTiny(Value(b)) THEN <<a[1] * b[1], 0>>
    ELSE IntMulWide(Value(a), Value(b))

\* a * b; the conversion of an int to float may raise OverflowError
RMul(a, b) ==
    IF IsInt(a) /\ IsInt(b) THEN IntMul(a, b)
    ELSE FloatMul(ToFloat(a), ToFloat(b))

\* the quotient q of ma * 2^k by mb as a float: the quotient has at least
\* 55 bits, and a bit below it tells whether the division left something
DivRounded(s, q, left, e) ==
    Float(s, NAdd(NMulLimb(q, 2), IF left THEN <<1>> ELSE <<>>), e - 1)

\* m * 2^k without its fraction; of an odd m and k < 0 the fraction is not
\* zero
Shifted(m, k) == IF k >= 0 THEN NShl(m, k) ELSE NShr(m, -k)

DivQuotient(a, b, k, qr) ==
    DivRounded(Sign(a) * Sign(b), qr.q, k < 0 \/ qr.r # <<>>, Expo(a) - Expo(b) - k)

DivWideBy(a, b, k) == DivQuotient(a, b, k, NDivMod(Shifted(Mant(a), k), Mant(b)))

DivWide(a, b) ==
    IF IsZero(a) THEN Zero
    ELSE DivWideBy(a, b, MantissaBits + 2 + NBits(Mant(b)) - NBits(Mant(a)))

\* n / d for d > 0 is a dyadic number below 2^30: the odd part of d
\* divides n
OddPart(d) == d \div 2^IntTrailingZeros(d)
DivTinyExact(n, d) == n % OddPart(d) = 0
DivTiny(n, d) == Dyadic(n \div OddPart(d), d \div OddPart(d))

\* a / b, b not zero, when one of them is inf, -inf or nan: inf / inf is
\* nan, a finite number by inf is zero
DivSpecial(a, b) ==
    IF IsNaN(a) \/ IsNaN(b) THEN NaN
    ELSE IF IsFinite(a) THEN Zero
    ELSE IF IsFinite(b) THEN Inf(Sign(a) * Sign(b))
    ELSE NaN

\* the float nearest to the quotient of two values, b not zero: inf when
\* that is 2^1024 or more
Quotient(a, b) ==
    IF ~IsFinite(a) \/ ~IsFinite(b) THEN DivSpecial(a, b)
    ELSE IF IsTiny(a) /\ IsTiny(b) /\ DivTinyExact(a[1] * b[2], IAbs(b[1]) * a[2])
    THEN DivTiny(Sign(b) * a[1] * b[2], IAbs(b[1]) * a[2])
    ELSE DivWide(a, b)

\* Python's None, and the exceptions of its arithmetic: x / 0, an int too
\* large for a float, round, ceil and floor of inf, and of nan
None == "None"
ZeroDivisionError == "ZeroDivisionError"
OverflowError == "OverflowError"
ValueError == "ValueError"

\* what a + b, a - b and a * b raise, r being their result: an int too
\* large for a float meets a float
Raised(r) == IF r = NoNumber THEN OverflowError ELSE None
ArithmeticError(a, b) == Raised(RAdd(a, b))

\* the operand a of a / b: the value of an int that meets an int, the
\* float of an int that meets a float
Operand(a, b) == IF IsInt(a) /\ IsInt(b) THEN Value(a) ELSE ToFloat(a)

\* the quotient of two ints is never inf: Python raises
QuotientOf(ints, q) == IF ints THEN Finite(q) ELSE q
Divided(ints, x, y) ==
    IF x = NoNumber \/ y = NoNumber \/ IsZero(y) THEN NoNumber
    ELSE QuotientOf(ints, Quotient(x, y))

\* a / b: the quotient of two ints is rounded once, an int that meets a
\* float is converted first; no number where Python raises
RDiv(a, b) == Divided(IsInt(a) /\ IsInt(b), Operand(a, b), Operand(b, a))

\* what a / b raises, q being its result.  Of two ints: a divisor of zero,
\* then a quotient too large for a float.  With a float: an int too large
\* to convert, then a divisor of zero.
DivisionRaised(a, b, q) ==
    IF q # NoNumber THEN None
    ELSE IF IsInt(a) /\ IsInt(b) THEN (IF IsZero(b) THEN ZeroDivisionError ELSE OverflowError)
    ELSE IF Overflows(a) \/ Overflows(b) THEN OverflowError
    ELSE ZeroDivisionError
DivisionError(a, b) == DivisionRaised(a, b, RDiv(a, b))

\* the float n / d of two ints
Rat(n, d) == RDiv(Int2Rat(n), Int2Rat(d))

\* the integer part of |a| and whether a fraction is left, for a finite
\* value a
IntPart(a) == IF Expo(a) >= 0 THEN NShl(Mant(a), Expo(a)) ELSE NShr(Mant(a), -Expo(a))
HasFraction(a) == Expo(a) < 0 /\ ~IsZero(a)
\* the fraction of |a| is at least, and is exactly, one half
HalfBit(a) == HasFraction(a) /\ NBit(Mant(a), -Expo(a) - 1) = 1
ExactHalf(a) == HalfBit(a) /\ NLowZero(Mant(a), -Expo(a) - 1)

\* the int of a float without its fraction, as wide as it is, and the one
\* beyond it: the floats from 2^53 on are integers
WholeOf(s, n) == IntOf(Pack(s, n, 0))
Whole(a, up) ==
    IF HasFraction(a) THEN WholeOf(Sign(a), NAdd(IntPart(a), IF up THEN <<1>> ELSE <<>>))
    ELSE IntOf(a)
WholeNumber(a) == Whole(a, FALSE)

\* math.floor: the largest int not above a, a itself when it is an int;
\* raises on inf and nan
PyFloor(a) ==
    IF IsInt(a) THEN a
    ELSE IF ~IsFinite(a) THEN NoNumber
    ELSE IF IsSmall(a) THEN <<a[1] \div a[2], 0>>
    ELSE Whole(a, Sign(a) = -1)

\* math.ceil: the smallest int not below a; raises on inf and nan
PyCeil(a) == IF ~IsFinite(a) THEN NoNumber ELSE RNeg(PyFloor(RNeg(a)))

\* round of f + r / d, 0 <= r < d
RoundSmall(f, r, d) ==
    IF d = 1 \/ r < d \div 2 THEN <<f, 0>>
    ELSE IF r > d \div 2 THEN <<f + 1, 0>>
    ELSE IF f % 2 = 0 THEN <<f, 0>> ELSE <<f + 1, 0>>

\* variant of PyRound: an exact half goes up
PyRound_HalfUp(a) ==
    IF IsInt(a) THEN a
    ELSE Whole(a, HalfBit(a) /\ ~(ExactHalf(a) /\ Sign(a) = -1))

\* round(x): the int nearest to a float, an exact half goes to the even
\* one, an int is itself; raises on inf and nan
PyRound(a) ==
    IF IsInt(a) THEN a
    ELSE IF ~IsFinite(a) THEN NoNumber
    ELSE IF IsSmall(a) THEN RoundSmall(a[1] \div a[2], a[1] % a[2], a[2])
    ELSE Whole(a, HalfBit(a) /\ ~(ExactHalf(a) /\ NBit(Mant(a), -Expo(a)) = 0))

----------------------------------------------------------------------------
(* Values of the program.                                                  *)

\* DEFAULT_TOLERANCE = 0.01
DEFAULT_TOLERANCE == Rat(1, 100)

BUY == "BUY"
SELL == "SELL"
EXCHANGE == "EXCHANGE"
TransactionType == {BUY, SELL, EXCHANGE}

UP == "UP"
DOWN == "DOWN"
NEAREST == "NEAREST"
RoundingBehavior == {UP, DOWN, NEAREST}

\* Python's None for a quantity
NoneQuantity == <<>>

\* the tickers of the model, in the order of Python's string comparison
TickerOrder == <<"AAA", "BBB", "CCC">>
Tickers == {TickerOrder[i] : i \in 1..Len(TickerOrder)}
TickerRank(t) == CHOOSE i \in 1..Len(TickerOrder) : TickerOrder[i] = t
StrLess(s, t) == TickerRank(s) < TickerRank(t)

Position(ticker, quantity) == [ticker |-> ticker, quantity |-> quantity]

RebalanceOptions(ex, frac, rb) ==
    [allow_share_exchanges |-> ex, allow_fractional_shares |-> frac,
     rounding_behavior |-> rb]

RebalanceInstruction(tt, ticker, quantity, counter_ticker, counter_quantity) ==
    [transaction_type |-> tt, ticker |-> ticker, quantity |-> quantity,
     counter_ticker |-> counter_ticker, counter_quantity |-> counter_quantity]

----------------------------------------------------------------------------
(* Portfolio: positions is a dict ticker -> Position, kept here as the     *)
(* sequence of its Positions in insertion order.  A portfolio attribute    *)
(* of the engine is either unset (None) or a Portfolio object.             *)

NoPortfolio == [is_none |-> TRUE, positions |-> <<>>]
Portfolio(positions) == [is_none |-> FALSE, positions |-> positions]

contains_ticker(p, ticker) ==
    \E i \in 1..Len(p.positions) : p.positions[i].ticker = ticker

get_quantity(p, ticker) ==
    IF contains_ticker(p, ticker)
    THEN LET i == CHOOSE j \in 1..Len(p.positions) : p.positions[j].ticker = ticker
         IN  p.positions[i].quantity
    ELSE Int2Rat(0)

all_tickers(p) == [i \in 1..Len(p.positions) |-> p.positions[i].ticker]

\* variant of add_position: a ticker already present gets the new position
add_position_Overwrites(p, position) ==
    [err |-> None,
     portfolio |->
         Portfolio([i \in 1..Len(p.positions) |->
                       IF p.positions[i].ticker = position.ticker THEN position
                       ELSE p.positions[i]]
                   \o (IF contains_ticker(p, position.ticker) THEN <<>> ELSE <<position>>))]

\* add_position: err is the exception raised, None when the position is stored
add_position(p, position) ==
    IF contains_ticker(p, position.ticker)
    THEN [err |-> "DuplicateTicker", portfolio |-> p]
    ELSE [err |-> None, portfolio |-> Portfolio(Append(p.positions, position))]

DuplicateTicker == "DuplicateTicker"

\* PriceLookup.add_price: the error raised if any, and the prices dict as
\* the call leaves it
add_price(pr, ticker, price) ==
    IF ticker \in DOMAIN pr
    THEN [err |-> DuplicateTicker, prices |-> pr]
    ELSE [err |-> None,
          prices |-> [t \in DOMAIN pr \cup {ticker} |->
                         IF t = ticker THEN price ELSE pr[t]]]

\* PriceLookup.get_price
has_price(pr, ticker) == ticker \in DOMAIN pr
get_price(pr, ticker) == pr[ticker]

\* variant of Truthy: a Portfolio without positions is false, as a
\* container with __len__ would be
Truthy_NonEmpty(p) == ~p.is_none /\ Len(p.positions) > 0

\* truth value of an engine attribute: a Portfolio defines neither __bool__
\* nor __len__, so only None is false
Truthy(p) == ~p.is_none

----------------------------------------------------------------------------
(* An insertion-ordered dict ticker -> number, as a sequence of entries.   *)

DictHas(d, k) == \E i \in 1..Len(d) : d[i].k = k

DictSet(d, k, v) ==
    IF DictHas(d, k)
    THEN [i \in 1..Len(d) |-> IF d[i].k = k THEN [k |-> k, v |-> v] ELSE d[i]]
    ELSE Append(d, [k |-> k, v |-> v])

\* defaultdict(float): a missing key reads as 0.0
DictGet(d, k) ==
    IF DictHas(d, k)
    THEN LET i == CHOOSE j \in 1..Len(d) : d[j].k = k IN d[i].v
    ELSE Zero

----------------------------------------------------------------------------
(* heapq on a list of (-value, ticker) tuples.  Positions are 0-based as   *)
(* in the library; the list element at position pos is heap[pos + 1].      *)

HeapEntry(neg_value, ticker) == [neg_value |-> neg_value, ticker |-> ticker]

\* tuple comparison (-value, ticker) < (-value', ticker'): the tickers
\* decide when the values are equal (==)
TupleLess(a, b) ==
    \/ RLt(a.neg_value, b.neg_value)
    \/ REq(a.neg_value, b.neg_value) /\ StrLess(a.ticker, b.ticker)

RECURSIVE SiftDown(_, _, _, _)
SiftDown(heap, startpos, pos, newitem) ==
    LET parentpos == (pos - 1) \div 2
    IN  IF pos > startpos /\ TupleLess(newitem, heap[parentpos + 1])
        THEN SiftDown([heap EXCEPT ![pos + 1] = heap[parentpos + 1]],
                      startpos, parentpos, newitem)
        ELSE [heap EXCEPT ![pos + 1] = newitem]

RECURSIVE SiftUpLoop(_, _, _, _)
SiftUpLoop(heap, startpos, pos, newitem) ==
    LET endpos   == Len(heap)
        leftpos  == 2 * pos + 1
        rightpos == leftpos + 1
        childpos == IF rightpos < endpos
                       /\ ~TupleLess(heap[leftpos + 1], heap[rightpos + 1])
                    THEN rightpos ELSE leftpos
    IN  IF leftpos < endpos
        THEN SiftUpLoop([heap EXCEPT ![pos + 1] = heap[childpos + 1]],
                        startpos, childpos, newitem)
        ELSE SiftDown([heap EXCEPT ![pos + 1] = newitem], startpos, pos, newitem)

SiftUp(heap, pos) == SiftUpLoop(heap, pos, pos, heap[pos + 1])

RECURSIVE HeapifyFrom(_, _)
HeapifyFrom(x, i) == IF i < 0 THEN x ELSE HeapifyFrom(SiftUp(x, i), i - 1)

heapify(x) == HeapifyFrom(x, (Len(x) \div 2) - 1)

heappush(heap, item) ==
    LET h == Append(heap, item) IN SiftDown(h, 0, Len(h) - 1, item)

\* heappop of a non-empty heap: the popped item and the heap that is left
heappop(heap) ==
    LET lastelt == heap[Len(heap)]
        rest    == SubSeq(heap, 1, Len(heap) - 1)
    IN  IF Len(rest) > 0
        THEN [item |-> rest[1], heap |-> SiftUp([rest EXCEPT ![1] = lastelt], 0)]
        ELSE [item |-> lastelt, heap |-> rest]

----------------------------------------------------------------------------
(* PortfolioRebalancer.  An engine is the record of its attributes:        *)
(* live_portfolio and model_portfolio are the contents of the Portfolio    *)
(* objects the two attributes hold, live_is_model tells that they hold one *)
(* and the same object.                                                    *)

\* an engine whose portfolio attributes hold two objects
Engine(pr, opts, tol, live, model) ==
    [prices |-> pr, options |-> opts, tolerance |-> tol,
     live_portfolio |-> live, model_portfolio |-> model, live_is_model |-> FALSE]

\* The identity of the object an attribute holds: None is object 0, the
\* live Portfolio is object 1, the model Portfolio object 2, or 1 when it
\* is the live one.
NoObject == 0
LiveObject(self) == IF self.live_portfolio.is_none THEN NoObject ELSE 1
ModelObject(self) ==
    IF self.model_portfolio.is_none THEN NoObject
    ELSE IF self.live_is_model THEN LiveObject(self) ELSE 2

\* the objects the attributes of the engine hold, each identity with its
\* contents
Objects(self) ==
    [o \in {LiveObject(self), ModelObject(self)} |->
        IF o = LiveObject(self) THEN self.live_portfolio ELSE self.model_portfolio]

\* Portfolio(): an object that is none of the objects in use
NewObject(objects) == CHOOSE o \in 1..(Cardinality(DOMAIN objects) + 1) : o \notin DOMAIN objects \cup {NoObject}

\* add_position called on the object o: the objects as the call leaves them
ObjectAddPosition(objects, o, position) ==
    [objects EXCEPT ![o] = add_position(@, position).portfolio]


RoundingRequired == "RoundingBehaviorRequired"
PortfoliosNotSet == "PortfoliosNotSet"
UnknownTicker == "UnknownTicker"
DidNotConverge == "RebalanceDidNotConverge"

\* what round(x), math.ceil(x) and math.floor(x) raise
RoundingError(x) ==
    IF IsNaN(x) THEN ValueError ELSE IF IsInf(x) THEN OverflowError ELSE None

\* variant of RoundDelta: UP as the floor plus one
RoundDelta_UpAddsOne(opts, delta) ==
    IF opts.allow_fractional_shares THEN [err |-> None, delta |-> delta]
    ELSE IF opts.rounding_behavior \notin RoundingBehavior
    THEN [err |-> RoundingRequired, delta |-> delta]
    ELSE IF RoundingError(delta) # None THEN [err |-> RoundingError(delta), delta |-> delta]
    ELSE IF opts.rounding_behavior = NEAREST THEN [err |-> None, delta |-> PyRound(delta)]
    ELSE IF opts.rounding_behavior = UP
    THEN [err |-> None, delta |-> RAdd(PyFloor(delta), Int2Rat(1))]
    ELSE [err |-> None, delta |-> PyFloor(delta)]

\* lines 51-59: the delta of a model ticker after the rounding branch; the
\* rounding of inf or nan raises
RoundDelta(opts, delta) ==
    IF opts.allow_fractional_shares THEN [err |-> None, delta |-> delta]
    ELSE IF opts.rounding_behavior \notin RoundingBehavior
    THEN [err |-> RoundingRequired, delta |-> delta]
    ELSE IF RoundingError(delta) # None THEN [err |-> RoundingError(delta), delta |-> delta]
    ELSE IF opts.rounding_behavior = NEAREST THEN [err |-> None, delta |-> PyRound(delta)]
    ELSE IF opts.rounding_behavior = UP THEN [err |-> None, delta |-> PyCeil(delta)]
    ELSE [err |-> None, delta |-> PyFloor(delta)]

\* line 60: a delta below the tolerance is skipped
BelowTolerance(self, delta) == RLt(RAbs(delta), self.tolerance)

\* lines 47-62: the loop over the model portfolio's tickers, from the i-th.
\* For the ticker mp_ticker, difference is what line 50 subtracts, and the
\* subtraction raises when an int too large for a float meets a float; r is
\* the delta after the rounding branch.
RECURSIVE ModelDeltas(_, _, _)
RoundedDelta(self, i, deltas, mp_ticker, difference, r) ==
    IF difference = NoNumber THEN [err |-> Raised(difference), deltas |-> deltas]
    ELSE IF r.err # None THEN [err |-> r.err, deltas |-> deltas]
    ELSE IF BelowTolerance(self, r.delta) THEN ModelDeltas(self, i + 1, deltas)
    ELSE ModelDeltas(self, i + 1, DictSet(deltas, mp_ticker, r.delta))

ModelDelta(self, i, deltas, mp_ticker, difference) ==
    RoundedDelta(self, i, deltas, mp_ticker, difference, RoundDelta(self.options, difference))

ModelDeltas(self, i, deltas) ==
    IF i > Len(self.model_portfolio.positions) THEN [err |-> None, deltas |-> deltas]
    ELSE ModelDelta(self, i, deltas, all_tickers(self.model_portfolio)[i],
                    RSub(get_quantity(self.model_portfolio, all_tickers(self.model_portfolio)[i]),
                         get_quantity(self.live_portfolio, all_tickers(self.model_portfolio)[i])))

\* lines 64-68: the loop over the live portfolio's tickers, from the i-th
RECURSIVE LiveDeltas(_, _, _)
LiveDeltas(self, i, deltas) ==
    IF i > Len(self.live_portfolio.positions) THEN deltas
    ELSE LET live_ticker == all_tickers(self.live_portfolio)[i]
             quantity    == get_quantity(self.live_portfolio, live_ticker)
         IN  IF ~contains_ticker(self.model_portfolio, live_ticker)
                /\ RGt(quantity, self.tolerance)
             THEN LiveDeltas(self, i + 1, DictSet(deltas, live_ticker, RNeg(quantity)))
             ELSE LiveDeltas(self, i + 1, deltas)

\* line 113: abs(quantity * price) of the product; the product raises when
\* an int too large for a float meets a float
PricedValue(product) ==
    IF product = NoNumber THEN [err |-> Raised(product), value |-> Zero]
    ELSE [err |-> None, value |-> RAbs(product)]

\* variant of DeltaValue: a missing price is read as one dollar instead of
\* raising
DeltaValue_DefaultPrice(self, ticker, quantity) ==
    PricedValue(RMul(quantity, IF has_price(self.prices, ticker)
                               THEN get_price(self.prices, ticker)
                               ELSE Int2Rat(1)))

\* line 113: the dollar value of a delta; the price lookup may raise, and
\* the product
DeltaValue(self, ticker, quantity) ==
    IF ~has_price(self.prices, ticker)
    THEN [err |-> UnknownTicker, value |-> Zero]
    ELSE PricedValue(RMul(quantity, get_price(self.prices, ticker)))

\* lines 111-117: the partition of the deltas into the buys and sells
\* lists, from the i-th; dv is the dollar value of the i-th
RECURSIVE PartitionDeltas(_, _, _, _, _)
PartitionDelta(self, deltas, i, buys, sells, dv) ==
    IF dv.err # None THEN [err |-> dv.err, buys |-> buys, sells |-> sells]
    ELSE IF RLt(deltas[i].v, Zero)
    THEN PartitionDeltas(self, deltas, i + 1, buys,
                         Append(sells, HeapEntry(RNeg(dv.value), deltas[i].k)))
    ELSE PartitionDeltas(self, deltas, i + 1,
                         Append(buys, HeapEntry(RNeg(dv.value), deltas[i].k)), sells)

PartitionDeltas(self, deltas, i, buys, sells) ==
    IF i > Len(deltas) THEN [err |-> None, buys |-> buys, sells |-> sells]
    ELSE PartitionDelta(self, deltas, i, buys, sells,
                        DeltaValue(self, deltas[i].k, deltas[i].v))

\* variant of ExchangeInstruction: the sell quantity carries a minus sign
ExchangeInstruction_SignedSell(sell_ticker, sell_price, buy_ticker, buy_price, value) ==
    RebalanceInstruction(EXCHANGE, sell_ticker, RNeg(RDiv(value, sell_price)),
                         buy_ticker, RDiv(value, buy_price))

\* variant of ExchangeInstruction: the sell ticker on both sides
ExchangeInstruction_SellTwice(sell_ticker, sell_price, buy_ticker, buy_price, value) ==
    RebalanceInstruction(EXCHANGE, sell_ticker, RDiv(value, sell_price),
                         sell_ticker, RDiv(value, buy_price))

\* lines 130 and 135: the EXCHANGE of a dollar value between two tickers
ExchangeInstruction(sell_ticker, sell_price, buy_ticker, buy_price, value) ==
    RebalanceInstruction(EXCHANGE, sell_ticker, RDiv(value, sell_price),
                         buy_ticker, RDiv(value, buy_price))

\* variant of PushResidual: the residual itself is compared with tolerance
PushResidual_Absolute(self, heap, ticker, residual_value, ratio) ==
    IF residual_value # NoNumber /\ RGt(residual_value, self.tolerance)
    THEN heappush(heap, HeapEntry(RNeg(residual_value), ticker))
    ELSE heap

\* what lines 130 and 135 raise, i being the EXCHANGE they build: the
\* division of the matched value by the sell price, then by the buy price
ExchangeError(value, sell_price, buy_price, i) ==
    IF i.quantity = NoNumber THEN DivisionRaised(value, sell_price, i.quantity)
    ELSE DivisionRaised(value, buy_price, i.counter_quantity)

\* what lines 131-132 and 136-137 raise: the subtraction of the matched
\* value from the larger one, which leaves residual_value, then the
\* division of the residual by the larger value, which gives ratio
ResidualError(residual_value, value, ratio) ==
    IF residual_value = NoNumber THEN Raised(residual_value)
    ELSE DivisionRaised(residual_value, value, ratio)

\* lines 132-133 and 137-138: the residual of the larger side goes back on
\* its heap when its ratio to the value it is taken from is more than
\* tolerance; when the subtraction or the division raised the heap stays as
\* it is
PushResidual(self, heap, ticker, residual_value, ratio) ==
    IF ratio # NoNumber /\ RGt(ratio, self.tolerance)
    THEN heappush(heap, HeapEntry(RNeg(residual_value), ticker))
    ELSE heap

\* variant of Matched: the matched value goes out as two EXCHANGEs of half
\* the value each
Matched_SplitInTwo(instructions, buy_ticker, buy_price, sell_ticker, sell_price, value) ==
    instructions
        \o <<ExchangeInstruction(sell_ticker, sell_price, buy_ticker, buy_price,
                                 RDiv(value, Int2Rat(2))),
             ExchangeInstruction(sell_ticker, sell_price, buy_ticker, buy_price,
                                 RDiv(value, Int2Rat(2)))>>

\* lines 130 and 135: the EXCHANGE of the matched value joins the list
Matched(instructions, buy_ticker, buy_price, sell_ticker, sell_price, value) ==
    Append(instructions,
           ExchangeInstruction(sell_ticker, sell_price, buy_ticker, buy_price, value))

\* lines 129 and 134: the smaller of the two popped values is matched, and
\* the larger one leaves a residual
MatchedValue(buy_value, sell_value) ==
    IF RGt(sell_value, buy_value) THEN buy_value ELSE sell_value
LargerValue(buy_value, sell_value) ==
    IF RGt(sell_value, buy_value) THEN sell_value ELSE buy_value

\* lines 131-133 and 136-138: the residual of the larger side, the sell
\* side when sell_larger, after the EXCHANGE joined the list (matched)
Residual(self, matched, buys, sells, buy_ticker, sell_ticker, sell_larger, value, residual_value, ratio) ==
    [err          |-> ResidualError(residual_value, value, ratio),
     instructions |-> matched,
     buys         |-> IF sell_larger THEN buys
                      ELSE PushResidual(self, buys, buy_ticker, residual_value, ratio),
     sells        |-> IF sell_larger
                      THEN PushResidual(self, sells, sell_ticker, residual_value, ratio)
                      ELSE sells]

ResidualOf(self, matched, buys, sells, buy_ticker, sell_ticker, sell_larger, value, residual_value) ==
    Residual(self, matched, buys, sells, buy_ticker, sell_ticker, sell_larger, value,
             residual_value, RDiv(residual_value, value))

\* lines 130 and 135: the divisions by the prices raise before the EXCHANGE
\* joins the list (matched)
MatchedInto(self, instructions, buys, sells, buy_ticker, buy_price, sell_ticker, sell_price, sell_larger, value, matched_value, matched) ==
    IF ExchangeError(matched_value, sell_price, buy_price, matched[Len(matched)]) # None
    THEN [err |-> ExchangeError(matched_value, sell_price, buy_price, matched[Len(matched)]),
          instructions |-> instructions, buys |-> buys, sells |-> sells]
    ELSE ResidualOf(self, matched, buys, sells, buy_ticker, sell_ticker, sell_larger,
                    value, RSub(value, matched_value))

\* lines 129-138: the EXCHANGE of the popped buy and sell, and the residual.
\* The divisions by the prices raise (lines 130, 135) before the EXCHANGE
\* joins the list, the subtraction and the division by the value (lines
\* 131-132, 136-137) after.
MatchValues(self, instructions, buys, sells, buy_ticker, buy_value, buy_price, sell_ticker, sell_value, sell_price) ==
    MatchedInto(self, instructions, buys, sells, buy_ticker, buy_price, sell_ticker,
                sell_price, RGt(sell_value, buy_value),
                LargerValue(buy_value, sell_value), MatchedValue(buy_value, sell_value),
                Matched(instructions, buy_ticker, buy_price, sell_ticker, sell_price,
                        MatchedValue(buy_value, sell_value)))

\* lines 122-127: the popped buy bp and sell sp, and their prices; err is
\* set when a price lookup raises
PoppedPair(self, st, bp, sp) ==
    IF ~has_price(self.prices, bp.item.ticker)
    THEN [st EXCEPT !.err = UnknownTicker, !.buys = bp.heap]
    ELSE IF ~has_price(self.prices, sp.item.ticker)
    THEN [st EXCEPT !.err = UnknownTicker, !.buys = bp.heap, !.sells = sp.heap]
    ELSE MatchValues(self, st.instructions, bp.heap, sp.heap,
                     bp.item.ticker, RAbs(bp.item.neg_value),
                     get_price(self.prices, bp.item.ticker),
                     sp.item.ticker, RAbs(sp.item.neg_value),
                     get_price(self.prices, sp.item.ticker))

\* lines 122-138: one round of the matching loop.  st holds the two heaps
\* and the instructions list.
ExchangeStep(self, st) == PoppedPair(self, st, heappop(st.buys), heappop(st.sells))

\* variant of ExchangeLoop: the matching stops after its first round
ExchangeLoop_OneRound(self, st) ==
    IF st.err = None /\ Len(st.buys) > 0 /\ Len(st.sells) > 0
    THEN ExchangeStep(self, st)
    ELSE st

\* line 121: the while loop
RECURSIVE ExchangeLoop(_, _)
ExchangeLoop(self, st) ==
    IF st.err = None /\ Len(st.buys) > 0 /\ Len(st.sells) > 0
    THEN ExchangeLoop(self, ExchangeStep(self, st))
    ELSE st

\* lines 142-147: the entries left on one heap written back into deltas,
\* from the i-th, as positive quantities for the buys (sign 1) and negative
\* ones for the sells (sign -1); the price lookup may raise, and the
\* division by the price, which gives q
RECURSIVE RepopulateDeltas(_, _, _, _, _)
RepopulateDelta(self, heap, sign, i, deltas, q) ==
    IF q = NoNumber
    THEN [err |-> DivisionRaised(RAbs(heap[i].neg_value),
                                 get_price(self.prices, heap[i].ticker), q),
          deltas |-> deltas]
    ELSE RepopulateDeltas(self, heap, sign, i + 1,
                          DictSet(deltas, heap[i].ticker, IF sign < 0 THEN RNeg(q) ELSE q))

RepopulateDeltas(self, heap, sign, i, deltas) ==
    IF i > Len(heap) THEN [err |-> None, deltas |-> deltas]
    ELSE IF ~has_price(self.prices, heap[i].ticker)
    THEN [err |-> UnknownTicker, deltas |-> deltas]
    ELSE RepopulateDelta(self, heap, sign, i, deltas,
                         RDiv(RAbs(heap[i].neg_value), get_price(self.prices, heap[i].ticker)))

\* lines 145-147: deltas as the call leaves it once the sells are written
\* back (rs), with the instructions of the matching loop
RepopulatedSells(st, rs) ==
    [err |-> rs.err, deltas |-> rs.deltas, instructions |-> st.instructions]

\* lines 142-147: the buys are written back (rb), then the sells
RepopulatedBuys(self, st, rb) ==
    IF rb.err # None
    THEN [err |-> rb.err, deltas |-> rb.deltas, instructions |-> st.instructions]
    ELSE RepopulatedSells(st, RepopulateDeltas(self, st.sells, -1, 1, rb.deltas))

\* lines 141-147: after the matching loop (st) deltas is cleared and
\* repopulated from what is left on the heaps
AfterExchangeLoop(self, deltas, st) ==
    IF st.err # None
    THEN [err |-> st.err, deltas |-> deltas, instructions |-> st.instructions]
    ELSE RepopulatedBuys(self, st, RepopulateDeltas(self, st.buys, 1, 1, <<>>))

\* lines 118-147: the partition (part) is heapified and matched
AfterPartition(self, deltas, instructions, part) ==
    IF part.err # None
    THEN [err |-> part.err, deltas |-> deltas, instructions |-> instructions]
    ELSE AfterExchangeLoop(self, deltas,
             ExchangeLoop(self, [err |-> None, instructions |-> instructions,
                                 buys |-> heapify(part.buys),
                                 sells |-> heapify(part.sells)]))

\* __populate_exchange_trades(deltas, instructions): the error raised if any,
\* and the two arguments as the call leaves them
populate_exchange_trades(self, deltas, instructions) ==
    AfterPartition(self, deltas, instructions, PartitionDeltas(self, deltas, 1, <<>>, <<>>))

\* variant of DeltaInstruction: the signed delta as the quantity
DeltaInstruction_NoAbs(ticker, quantity) ==
    RebalanceInstruction(IF RGt(quantity, Zero) THEN BUY ELSE SELL,
                         ticker, quantity, None, NoneQuantity)

\* lines 75-76: the BUY or SELL of one entry of deltas
DeltaInstruction(ticker, quantity) ==
    RebalanceInstruction(IF RGt(quantity, Zero) THEN BUY ELSE SELL,
                         ticker, RAbs(quantity), None, NoneQuantity)

\* line 74: one instruction per entry left in deltas
RECURSIVE AppendDeltaInstructions(_, _, _)
AppendDeltaInstructions(deltas, i, instructions) ==
    IF i > Len(deltas) THEN instructions
    ELSE AppendDeltaInstructions(deltas, i + 1,
             Append(instructions, DeltaInstruction(deltas[i].k, deltas[i].v)))

\* lines 74-77: ex is what the exchange matching left; the BUYs and SELLs of
\* the remaining deltas follow its instructions
DeltasToInstructions(ex) ==
    IF ex.err # None
    THEN [err |-> ex.err, instructions |-> ex.instructions]
    ELSE [err |-> None,
          instructions |-> AppendDeltaInstructions(ex.deltas, 1, ex.instructions)]

\* lines 70-72: the exchange matching runs only when the options allow it
ExchangeTrades(self, deltas) ==
    IF self.options.allow_share_exchanges
    THEN populate_exchange_trades(self, deltas, <<>>)
    ELSE [err |-> None, deltas |-> deltas, instructions |-> <<>>]

\* lines 64-77: what follows the model loop (md)
AfterModelDeltas(self, md) ==
    IF md.err # None THEN [err |-> md.err, instructions |-> <<>>]
    ELSE DeltasToInstructions(ExchangeTrades(self, LiveDeltas(self, 1, md.deltas)))

\* build_rebalance_instructions: err is the exception raised (None when the
\* call returns); instructions is the returned list, or on an exception the
\* local list as it stood when the exception was raised
build_rebalance_instructions(self) ==
    IF ~(Truthy(self.live_portfolio) /\ Truthy(self.model_portfolio))
    THEN [err |-> PortfoliosNotSet, instructions |-> <<>>]
    ELSE AfterModelDeltas(self, ModelDeltas(self, 1, <<>>))

----------------------------------------------------------------------------
(* build_rebalanced_portfolio and validate.                                *)

\* lines 82-83: the rebalanced map seeded with the live holdings
RECURSIVE SeedRebalanced(_, _, _)
SeedRebalanced(live, i, rebalanced) ==
    IF i > Len(live.positions) THEN rebalanced
    ELSE LET ticker == all_tickers(live)[i]
         IN  SeedRebalanced(live, i + 1,
                 DictSet(rebalanced, ticker, get_quantity(live, ticker)))

\* variant of ApplyInstruction: an EXCHANGE leaves the counter ticker alone
ApplyInstruction_NoCounter(rebalanced, i) ==
    IF i.transaction_type = BUY
    THEN DictSet(rebalanced, i.ticker, RAdd(DictGet(rebalanced, i.ticker), i.quantity))
    ELSE DictSet(rebalanced, i.ticker, RSub(DictGet(rebalanced, i.ticker), i.quantity))

\* lines 86-92: the effect of one instruction on the rebalanced map
ApplyInstruction(rebalanced, i) ==
    IF i.transaction_type = BUY
    THEN DictSet(rebalanced, i.ticker, RAdd(DictGet(rebalanced, i.ticker), i.quantity))
    ELSE IF i.transaction_type = SELL
    THEN DictSet(rebalanced, i.ticker, RSub(DictGet(rebalanced, i.ticker), i.quantity))
    ELSE LET r1 == DictSet(rebalanced, i.ticker,
                       RSub(DictGet(rebalanced, i.ticker), i.quantity))
         IN  DictSet(r1, i.counter_ticker,
                 RAdd(DictGet(r1, i.counter_ticker), i.counter_quantity))

\* what lines 87-92 raise on one instruction, applied being the map with
\* its effect: a += or -= in which an int too large for a float meets a
\* float
ApplyError(applied, i) ==
    IF DictGet(applied, i.ticker) = NoNumber THEN Raised(DictGet(applied, i.ticker))
    ELSE IF i.transaction_type = EXCHANGE
    THEN Raised(DictGet(applied, i.counter_ticker))
    ELSE None

\* line 85: the loop over the instructions, from the n-th; err is the
\* exception raised, None when the loop ends
RECURSIVE ApplyInstructions(_, _, _)
Applied(rebalanced, instructions, n, applied) ==
    IF ApplyError(applied, instructions[n]) # None
    THEN [err |-> ApplyError(applied, instructions[n]), rebalanced |-> rebalanced]
    ELSE ApplyInstructions(applied, instructions, n + 1)

ApplyInstructions(rebalanced, instructions, n) ==
    IF n > Len(instructions) THEN [err |-> None, rebalanced |-> rebalanced]
    ELSE Applied(rebalanced, instructions, n, ApplyInstruction(rebalanced, instructions[n]))

\* lines 97-99: add_position on the object o for the non-zero entries
RECURSIVE NonZeroPositions(_, _, _, _)
NonZeroPositions(rebalanced, i, objects, o) ==
    IF i > Len(rebalanced) THEN objects
    ELSE IF ~REq(rebalanced[i].v, Zero)
    THEN NonZeroPositions(rebalanced, i + 1,
             ObjectAddPosition(objects, o, Position(rebalanced[i].k, rebalanced[i].v)), o)
    ELSE NonZeroPositions(rebalanced, i + 1, objects, o)

\* lines 96-100: the object o, filled and returned; objects are the objects
\* as the call leaves them
RebalancedObject(r, objects, o) ==
    [err |-> None, instructions |-> r.instructions,
     portfolio |-> objects[o], object |-> o, objects |-> objects]

\* a call that raises has built no Portfolio
NotRebalanced(self, r, err) ==
    [err |-> err, instructions |-> r.instructions, portfolio |-> NoPortfolio,
     object |-> NoObject, objects |-> Objects(self)]

\* lines 85-100, rebalanced_portfolio being the object o and applied the
\* outcome of the loop over the instructions
RebalancedInto(self, r, applied, objects, o) ==
    IF applied.err # None THEN NotRebalanced(self, r, applied.err)
    ELSE RebalancedObject(r, NonZeroPositions(applied.rebalanced, 1, objects, o), o)

\* variant of RebalancedFrom: the live Portfolio is emptied, refilled with
\* the rebalanced holdings and returned, where the code fills a new one
RebalancedFrom_InPlace(self, r) ==
    IF r.err # None THEN NotRebalanced(self, r, r.err)
    ELSE RebalancedInto(self, r,
             ApplyInstructions(SeedRebalanced(self.live_portfolio, 1, <<>>),
                               r.instructions, 1),
             [Objects(self) EXCEPT ![LiveObject(self)] = Portfolio(<<>>)],
             LiveObject(self))

\* lines 81-100: the portfolio rebuilt from the instructions (r) in a new,
\* empty Portfolio (line 96)
RebalancedFrom(self, r) ==
    IF r.err # None THEN NotRebalanced(self, r, r.err)
    ELSE RebalancedInto(self, r,
             ApplyInstructions(SeedRebalanced(self.live_portfolio, 1, <<>>),
                               r.instructions, 1),
             (NewObject(Objects(self)) :> Portfolio(<<>>)) @@ Objects(self),
             NewObject(Objects(self)))

build_rebalanced_portfolio(self) == RebalancedFrom(self, build_rebalance_instructions(self))

\* lines 103-105: the validator is a new engine with the default tolerance;
\* it holds the model object of self and the rebalanced object (rp)
Validator(self, rp) ==
    [Engine(self.prices, self.options, DEFAULT_TOLERANCE, rp.portfolio, self.model_portfolio)
        EXCEPT !.live_is_model = (rp.object = ModelObject(self))]

\* lines 105-108: the validator's instructions (r) must be empty
ValidatorOutcome(rp, r) ==
    IF r.err # None
    THEN [rp EXCEPT !.err = r.err, !.instructions = r.instructions]
    ELSE IF Len(r.instructions) > 0
    THEN [rp EXCEPT !.err = DidNotConverge, !.instructions = r.instructions]
    ELSE [rp EXCEPT !.err = None, !.instructions = r.instructions]

\* lines 103-108: the validator is run on the rebalanced portfolio (rp)
ValidateRebalanced(self, rp) ==
    IF rp.err # None
    THEN rp
    ELSE ValidatorOutcome(rp, build_rebalance_instructions(Validator(self, rp)))

validate(self) == ValidateRebalanced(self, build_rebalanced_portfolio(self))

----------------------------------------------------------------------------
(* ModelPortfolioBuilder.  model_positions is a dict ticker ->             *)
(* ModelPosition, kept as the sequence of its values in insertion order.   *)
(* The builder holds a reference to a PriceLookup: the operations read the *)
(* prices as they are when they run.                                       *)

ModelPosition(ticker, target_percentage) ==
    [ticker |-> ticker, target_percentage |-> target_percentage]

\* __init__
ModelPortfolioBuilder(target_value, tol) ==
    [target_value |-> target_value, tolerance |-> tol, model_positions |-> <<>>]

PercentagesNotSum100 == "PercentagesDoNotSum100"

has_model_position(b, ticker) ==
    \E i \in 1..Len(b.model_positions) : b.model_positions[i].ticker = ticker

\* add_model_position: the error raised if any, and the builder as the call
\* leaves it
add_model_position(b, model_position) ==
    IF has_model_position(b, model_position.ticker)
    THEN [err |-> DuplicateTicker, builder |-> b]
    ELSE [err |-> None,
          builder |-> [b EXCEPT !.model_positions = Append(@, model_position)]]

\* line 23: sum([...]) of the target percentages, the first n of them,
\* added to the int 0 one after the other
RECURSIVE PercentageSum(_, _)
PercentageSum(b, n) ==
    IF n = 0 THEN Int2Rat(0)
    ELSE RAdd(PercentageSum(b, n - 1), b.model_positions[n].target_percentage)

\* what the sum and the subtraction of line 23 raise
SumError(b) ==
    IF RAdd(PercentageSum(b, Len(b.model_positions)), Int2Rat(-100)) = NoNumber
    THEN OverflowError ELSE None

\* variant of SumOff: a sum at the tolerance is refused as well
SumOff_AtBoundary(b) ==
    ~RLt(RAbs(RSub(PercentageSum(b, Len(b.model_positions)), Int2Rat(100))), b.tolerance)

\* line 23: the sum of the percentages is off 100 by more than the tolerance
SumOff(b) ==
    RGt(RAbs(RSub(PercentageSum(b, Len(b.model_positions)), Int2Rat(100))), b.tolerance)

\* variant of ModelQuantity: the percentage is taken as a fraction
ModelQuantity_NoPercent(b, mp, price) ==
    RDiv(RMul(b.target_value, mp.target_percentage), price)

\* line 29: the quantity of one model position
ModelQuantity(b, mp, price) ==
    RDiv(RDiv(RMul(b.target_value, mp.target_percentage), Int2Rat(100)), price)

\* what line 29 raises: the product, then the division by 100, then the
\* division by the price
PercentError(product) ==
    IF product = NoNumber THEN OverflowError ELSE DivisionError(product, Int2Rat(100))
ModelQuantityError(b, mp, price) ==
    IF PercentError(RMul(b.target_value, mp.target_percentage)) # None
    THEN PercentError(RMul(b.target_value, mp.target_percentage))
    ELSE DivisionError(RDiv(RMul(b.target_value, mp.target_percentage), Int2Rat(100)), price)

\* line 30-31: only a strictly positive quantity is added
AddIfPositive(p, ticker, quantity) ==
    IF RGt(quantity, Zero) THEN add_position(p, Position(ticker, quantity)).portfolio
    ELSE p

\* lines 27-31: the loop over the model positions, from the i-th; the price
\* lookup may raise, and the arithmetic of line 29
RECURSIVE GeneratePositions(_, _, _, _)
GeneratePositions(b, pr, i, p) ==
    IF i > Len(b.model_positions) THEN [err |-> None, instructions |-> <<>>, portfolio |-> p]
    ELSE IF ~has_price(pr, b.model_positions[i].ticker)
    THEN [err |-> UnknownTicker, instructions |-> <<>>, portfolio |-> NoPortfolio]
    ELSE IF ModelQuantityError(b, b.model_positions[i], get_price(pr, b.model_positions[i].ticker)) # None
    THEN [err |-> ModelQuantityError(b, b.model_positions[i], get_price(pr, b.model_positions[i].ticker)),
          instructions |-> <<>>, portfolio |-> NoPortfolio]
    ELSE GeneratePositions(b, pr, i + 1,
             AddIfPositive(p, b.model_positions[i].ticker,
                 ModelQuantity(b, b.model_positions[i],
                               get_price(pr, b.model_positions[i].ticker))))

\* generate_model_portfolio: the exception raised if any, and the Portfolio
\* returned
generate_model_portfolio(b, pr) ==
    IF SumError(b) # None
    THEN [err |-> SumError(b), instructions |-> <<>>, portfolio |-> NoPortfolio]
    ELSE IF SumOff(b)
    THEN [err |-> PercentagesNotSum100, instructions |-> <<>>, portfolio |-> NoPortfolio]
    ELSE GeneratePositions(b, pr, 1, Portfolio(<<>>))

----------------------------------------------------------------------------
(* Inputs.                                                                 *)

\* quantities: quarters of a share up to MaxQuarters of the two priced
\* stocks and three whole shares of AAA; of the one-dollar ticker one per
\* cent more than three shares of AAA are worth, and in a model portfolio
\* seven dollars, which no float quantity of AAA or BBB is worth
MaxQuarters == 2
Quarters == {Rat(k, 4) : k \in 1..MaxQuarters}
LiveQuantitiesOf(t) ==
    IF t = "AAA" THEN Quarters \cup {Int2Rat(3)}
    ELSE IF t = "BBB" THEN Quarters
    ELSE {Int2Rat(303)}
ModelQuantitiesOf(t) ==
    IF t = "CCC" THEN {Int2Rat(7), Int2Rat(303)} ELSE LiveQuantitiesOf(t)

\* a portfolio holds any of the tickers, added in the order of the tickers
PortfolioOf(h) ==
    Portfolio(SelectSeq([i \in 1..Len(TickerOrder) |->
                            Position(TickerOrder[i], h[TickerOrder[i]])],
                        LAMBDA x : x.quantity # NoneQuantity))

LivePortfolios ==
    {PortfolioOf(h) : h \in [AAA : LiveQuantitiesOf("AAA") \cup {NoneQuantity},
                             BBB : LiveQuantitiesOf("BBB") \cup {NoneQuantity},
                             CCC : LiveQuantitiesOf("CCC") \cup {NoneQuantity}]}
ModelPortfolios ==
    {PortfolioOf(h) : h \in [AAA : ModelQuantitiesOf("AAA") \cup {NoneQuantity},
                             BBB : ModelQuantitiesOf("BBB") \cup {NoneQuantity},
                             CCC : ModelQuantitiesOf("CCC") \cup {NoneQuantity}]}

\* the price oracle: the PriceLookup of the tests (AAA 100, BBB 200), and the
\* same with a third ticker CCC at one dollar
PricesAll == [t \in Tickers |->
                 IF t = "AAA" THEN Int2Rat(100)
                 ELSE IF t = "BBB" THEN Int2Rat(200) ELSE Int2Rat(1)]
PricesNoCCC == [t \in {"AAA", "BBB"} |-> PricesAll[t]]
PriceMaps == {PricesAll, PricesNoCCC}

\* the options the callers build (NEAREST when fractional shares are
\* allowed), and the ones that leave the rounding behaviour out
OptionsSet ==
    {RebalanceOptions(ex, TRUE, NEAREST) : ex \in BOOLEAN}
    \cup {RebalanceOptions(ex, FALSE, rb) :
             ex \in BOOLEAN, rb \in RoundingBehavior \cup {None}}

\* the default tolerance, and one that is a quantity of the portfolios
Tolerances == {DEFAULT_TOLERANCE, Rat(1, 2)}

\* the engines: prices are read by the exchange matching only, so the
\* oracle without CCC is given to one engine, with exchanges and fractional
\* shares allowed; the tolerance other than the default is given to the
\* engines of the callers' options for fractional shares, with every price
\* known
Configs ==
    {c \in [prices : PriceMaps, options : OptionsSet, tolerance : Tolerances] :
        /\ c.prices = PricesNoCCC
               => c.options = RebalanceOptions(TRUE, TRUE, NEAREST)
        /\ c.tolerance # DEFAULT_TOLERANCE
               => /\ c.prices = PricesAll
                  /\ c.options.allow_fractional_shares
                  /\ c.options.rounding_behavior = NEAREST}

\* the positions a caller adds to a Portfolio after it gave it to an engine
AddedPositions == {Position("CCC", Int2Rat(303))}

\* the price a caller adds to the PriceLookup after it gave it to an engine
AddedPrices == {<<"CCC", Int2Rat(1)>>}

\* the containers are filled with two tickers
ContainerTickers == {"AAA", "BBB"}

\* the prices a ticker is given: the ones of the tests, and a second one for
\* AAA
PriceChoices(t) ==
    IF t = "AAA" THEN {Int2Rat(100), Int2Rat(128)} ELSE {Int2Rat(200)}

\* the quantities of the positions added to a Portfolio
PositionQuantities == {Zero, Rat(1, 2)}

\* target percentages: 0, 100, and 50 with up to MaxPercentSteps quarters of
\* a percent more or less
MaxPercentSteps == 1
Percentages ==
    {Zero, Int2Rat(100)}
        \cup {Rat(200 + k, 4) : k \in (0 - MaxPercentSteps)..MaxPercentSteps}

TargetValues == {Int2Rat(4000)}
BuilderTolerances == {DEFAULT_TOLERANCE, Rat(1, 4)}

----------------------------------------------------------------------------
(* The engine as a state machine.  result describes the last call: the     *)
(* operation, the exception it raised (None if it returned), the           *)
(* instruction list, the Portfolio it returned or had built and, for the   *)
(* engine, the identity of that Portfolio object.                          *)

self ==
    [Engine(prices, options, tolerance, live_portfolio, model_portfolio)
        EXCEPT !.live_is_model = live_is_model]

Result(op, err, instructions, portfolio) ==
    [op |-> op, err |-> err, instructions |-> instructions, portfolio |-> portfolio,
     object |-> NoObject]

\* the outcome r of a call that returns instructions
InstructionsResult(op, r) == Result(op, r.err, r.instructions, NoPortfolio)

\* the outcome r of a call that builds a portfolio
PortfolioResult(op, r) == Result(op, r.err, r.instructions, r.portfolio)

\* __init__
Init ==
    /\ \E c \in Configs :
          prices = c.prices /\ options = c.options /\ tolerance = c.tolerance
    /\ live_portfolio = NoPortfolio
    /\ model_portfolio = NoPortfolio
    /\ live_is_model = FALSE
    /\ result = Result("__init__", None, <<>>, NoPortfolio)
    /\ built_portfolio = NoPortfolio
    /\ builder = None

\* whether the Portfolio p given to a setter is the object the engine holds
\* in its other attribute (held): it may be when the two hold the same
\* positions
SameObject(p, held) == IF ~p.is_none /\ p = held THEN {FALSE, TRUE} ELSE {FALSE}

\* set_live_portfolio: the engine keeps the object it is given, None included
SetLivePortfolio ==
    /\ \E p \in LivePortfolios \cup {NoPortfolio} :
          /\ live_portfolio' = p
          /\ live_is_model' \in SameObject(p, model_portfolio)
    /\ result' = Result("set_live_portfolio", None, <<>>, NoPortfolio)
    /\ UNCHANGED <<prices, options, tolerance, model_portfolio, built_portfolio, builder>>

\* set_model_portfolio: the engine keeps the object it is given, None included
SetModelPortfolio ==
    /\ \E p \in ModelPortfolios \cup {NoPortfolio} :
          /\ model_portfolio' = p
          /\ live_is_model' \in SameObject(p, live_portfolio)
    /\ result' = Result("set_model_portfolio", None, <<>>, NoPortfolio)
    /\ UNCHANGED <<prices, options, tolerance, live_portfolio, built_portfolio, builder>>

\* build_rebalance_instructions: the call makes and writes its own deltas,
\* heaps and instruction list, reads the portfolios and the prices through
\* get_quantity, contains_ticker, all_tickers and get_price, and calls
\* nothing else on them
BuildRebalanceInstructions ==
    /\ result' = InstructionsResult("build_rebalance_instructions",
                                     build_rebalance_instructions(self))
    /\ UNCHANGED <<prices, options, tolerance, live_portfolio, model_portfolio, live_is_model, built_portfolio, builder>>

\* build_rebalanced_portfolio: the attributes hold the objects they held,
\* with the contents the call left in them
BuildRebalancedPortfolio ==
    /\ \E r \in {build_rebalanced_portfolio(self)} :
          /\ result' = [PortfolioResult("build_rebalanced_portfolio", r) EXCEPT !.object = r.object]
          /\ live_portfolio' = r.objects[LiveObject(self)]
          /\ model_portfolio' = r.objects[ModelObject(self)]
    /\ UNCHANGED <<prices, options, tolerance, live_is_model, built_portfolio, builder>>

\* validate: the setters are called on the validator, a new engine
Validate ==
    /\ \E r \in {validate(self)} :
          /\ result' = [PortfolioResult("validate", r) EXCEPT !.object = r.object]
          /\ live_portfolio' = r.objects[LiveObject(self)]
          /\ model_portfolio' = r.objects[ModelObject(self)]
    /\ UNCHANGED <<prices, options, tolerance, live_is_model, built_portfolio, builder>>

\* Portfolio.add_position on the Portfolio the engine was given: the engine
\* keeps the object itself, not a copy, so a position the caller adds to it
\* after the setter is a position of the engine's portfolio, under each
\* attribute that holds the object
LivePortfolioAddPosition ==
    /\ ~live_portfolio.is_none
    /\ \E position \in AddedPositions :
          \E objects \in {ObjectAddPosition(Objects(self), LiveObject(self), position)} :
             /\ live_portfolio' = objects[LiveObject(self)]
             /\ model_portfolio' = objects[ModelObject(self)]
             /\ result' = Result("live_portfolio.add_position",
                              add_position(live_portfolio, position).err, <<>>, NoPortfolio)
    /\ UNCHANGED <<prices, options, tolerance, live_is_model, built_portfolio, builder>>

\* the same on the Portfolio given as the model
ModelPortfolioAddPosition ==
    /\ ~model_portfolio.is_none
    /\ \E position \in AddedPositions :
          \E objects \in {ObjectAddPosition(Objects(self), ModelObject(self), position)} :
             /\ live_portfolio' = objects[LiveObject(self)]
             /\ model_portfolio' = objects[ModelObject(self)]
             /\ result' = Result("model_portfolio.add_position",
                              add_position(model_portfolio, position).err, <<>>, NoPortfolio)
    /\ UNCHANGED <<prices, options, tolerance, live_is_model, built_portfolio, builder>>

\* PriceLookup.add_price on the PriceLookup the engine was given: the engine
\* keeps the object (line 30), so a price the caller adds to it is a price
\* the engine reads
PriceLookupAddPrice ==
    /\ \E tp \in AddedPrices :
          /\ prices' = add_price(prices, tp[1], tp[2]).prices
          /\ result' = Result("prices.add_price",
                           add_price(prices, tp[1], tp[2]).err, <<>>, NoPortfolio)
    /\ UNCHANGED <<options, tolerance, live_portfolio, model_portfolio, live_is_model, built_portfolio, builder>>

Next ==
    \/ SetLivePortfolio
    \/ SetModelPortfolio
    \/ LivePortfolioAddPosition
    \/ ModelPortfolioAddPosition
    \/ PriceLookupAddPrice
    \/ BuildRebalanceInstructions
    \/ BuildRebalancedPortfolio
    \/ Validate

Spec == Init /\ [][Next]_vars

----------------------------------------------------------------------------
(* The containers as a state machine: a PriceLookup, a Portfolio and a     *)
(* ModelPortfolioBuilder under construction.  result describes the last    *)
(* call, with the ticker and the value it was given.                       *)

ContainerResult(op, ticker, value, err) ==
    [op |-> op, err |-> err, instructions |-> <<>>, portfolio |-> NoPortfolio,
     ticker |-> ticker, value |-> value]

\* PriceLookup(), Portfolio() and ModelPortfolioBuilder(target_value, prices,
\* tolerance); no engine is built
ContainerInit ==
    /\ prices = [t \in {} |-> Zero]
    /\ built_portfolio = Portfolio(<<>>)
    /\ \E v \in TargetValues, tol \in BuilderTolerances :
          builder = ModelPortfolioBuilder(v, tol)
    /\ options = RebalanceOptions(FALSE, TRUE, NEAREST)
    /\ tolerance = DEFAULT_TOLERANCE
    /\ live_portfolio = NoPortfolio
    /\ model_portfolio = NoPortfolio
    /\ live_is_model = FALSE
    /\ result = ContainerResult("__init__", None, Zero, None)

AddPrice ==
    /\ \E t \in ContainerTickers : \E p \in PriceChoices(t) :
          /\ prices' = add_price(prices, t, p).prices
          /\ result' = ContainerResult("add_price", t, p, add_price(prices, t, p).err)
    /\ UNCHANGED <<options, tolerance, live_portfolio, model_portfolio, live_is_model, built_portfolio, builder>>

AddPosition ==
    /\ \E t \in ContainerTickers, q \in PositionQuantities :
          /\ built_portfolio' = add_position(built_portfolio, Position(t, q)).portfolio
          /\ result' = ContainerResult("add_position", t, q,
                                       add_position(built_portfolio, Position(t, q)).err)
    /\ UNCHANGED <<prices, options, tolerance, live_portfolio, model_portfolio, live_is_model, builder>>

AddModelPosition ==
    /\ \E t \in ContainerTickers, pct \in Percentages :
          /\ builder' = add_model_position(builder, ModelPosition(t, pct)).builder
          /\ result' = ContainerResult("add_model_position", t, pct,
                                       add_model_position(builder, ModelPosition(t, pct)).err)
    /\ UNCHANGED <<prices, options, tolerance, live_portfolio, model_portfolio, live_is_model, built_portfolio>>

GenerateModelPortfolio ==
    /\ result' = PortfolioResult("generate_model_portfolio",
                                 generate_model_portfolio(builder, prices))
    /\ UNCHANGED <<prices, options, tolerance, live_portfolio, model_portfolio,
                   live_is_model, built_portfolio, builder>>

ContainerNext ==
    \/ AddPrice
    \/ AddPosition
    \/ AddModelPosition
    \/ GenerateModelPortfolio

ContainerSpec == ContainerInit /\ [][ContainerNext]_vars

----------------------------------------------------------------------------
(* Properties.  Helper vocabulary for stating them.                        *)

Returned(op) == result.op = op /\ result.err = None
BothSet == ~live_portfolio.is_none /\ ~model_portfolio.is_none

Instr == result.instructions

RLe(a, b) == ~RLt(b, a)
\* a is a whole number, an int or a float
RIsInt(a) == ~HasFraction(Value(a))
InstrOf(t) == {i \in 1..Len(Instr) : Instr[i].ticker = t}

RECURSIVE RSum(_, _)
RSum(f, S) ==
    IF S = {} THEN Int2Rat(0)
    ELSE LET x == CHOOSE y \in S : \A z \in S : z <= y
         IN  RAdd(RSum(f, S \ {x}), f[x])

\* the quantity of ticker t that the instructions sell: SELL quantities and
\* the sell side of EXCHANGEs
SoldQuantity(ins, t) ==
    RSum([i \in 1..Len(ins) |-> ins[i].quantity],
         {i \in 1..Len(ins) : ins[i].ticker = t /\ ins[i].transaction_type \in {SELL, EXCHANGE}})

LiveOnlyTickers ==
    {t \in Tickers : contains_ticker(live_portfolio, t) /\ ~contains_ticker(model_portfolio, t)}

\* C1: with fractional shares allowed, the portfolio returned by
\* build_rebalanced_portfolio, used as the live portfolio of the same engine
\* (same model, prices, options), gives an empty instruction list.
C1_Convergence ==
    (Returned("build_rebalanced_portfolio") /\ options.allow_fractional_shares)
        => LET again == build_rebalance_instructions(
                            Engine(prices, options, tolerance, result.portfolio, model_portfolio))
           IN  again.err = None /\ again.instructions = <<>>

\* C2: every ticker held live and absent from the model is sold whole: its
\* SELL and EXCHANGE sell-side quantities sum to its live quantity.
C2_FullLiquidation ==
    Returned("build_rebalance_instructions")
        => \A t \in LiveOnlyTickers :
               REq(SoldQuantity(Instr, t), get_quantity(live_portfolio, t))

----------------------------------------------------------------------------
(* What the rounding behaviours mean, stated without the rounding code.    *)

\* r is a whole number nearest to d, the even one at an exact half
IsNearestEven(r, d) ==
    LET twice == RMul(Int2Rat(2), RAbs(RSub(r, d)))
    IN  /\ RIsInt(r)
        /\ RLe(twice, Int2Rat(1))
        /\ REq(twice, Int2Rat(1)) => NBit(IntPart(Value(r)), 0) = 0

\* r is the smallest whole number not below d
IsCeiling(r, d) == RIsInt(r) /\ RLe(d, r) /\ RLt(RSub(r, d), Int2Rat(1))

\* r is the largest whole number not above d
IsFloor(r, d) == RIsInt(r) /\ RLe(r, d) /\ RLt(RSub(d, r), Int2Rat(1))

\* r is what the options make of the raw delta d
MeetsRounding(r, d) ==
    IF options.allow_fractional_shares THEN REq(r, d)
    ELSE IF options.rounding_behavior = NEAREST THEN IsNearestEven(r, d)
    ELSE IF options.rounding_behavior = UP THEN IsCeiling(r, d)
    ELSE IF options.rounding_behavior = DOWN THEN IsFloor(r, d)
    ELSE FALSE

RawDelta(t) == RSub(get_quantity(model_portfolio, t), get_quantity(live_portfolio, t))

\* the signed quantity of a BUY (+) or SELL (-) instruction
Signed(i) == IF i.transaction_type = BUY THEN i.quantity ELSE RNeg(i.quantity)

\* the net BUY/SELL quantity the instructions hold for ticker t
SignedQuantity(t) ==
    RSum([i \in 1..Len(Instr) |-> Signed(Instr[i])],
         {i \in InstrOf(t) : Instr[i].transaction_type \in {BUY, SELL}})

WholeQuantities(p) == \A i \in 1..Len(p.positions) : RIsInt(p.positions[i].quantity)

\* C3: without exchanges there is no EXCHANGE and one instruction per
\* surviving delta: for a model ticker the delta is model - live (rounded
\* when fractional shares are disallowed), a BUY of delta when positive, a
\* SELL of |delta| when negative, nothing when |delta| is below tolerance;
\* in particular an empty live portfolio gives one BUY per model ticker for
\* its quantity, the model quantities being deltas that survive the filter.
C3_BuySellPerDelta ==
    (Returned("build_rebalance_instructions") /\ ~options.allow_share_exchanges)
        => /\ \A i \in 1..Len(Instr) : Instr[i].transaction_type \in {BUY, SELL}
           /\ \A t \in Tickers : Cardinality(InstrOf(t)) <= 1
           /\ \A t \in Tickers :
                 IF contains_ticker(model_portfolio, t)
                 THEN /\ InstrOf(t) = {} =>
                            \E r \in {Zero, RawDelta(t)} :
                                MeetsRounding(r, RawDelta(t)) /\ RLt(RAbs(r), tolerance)
                      /\ \A i \in InstrOf(t) :
                            /\ RGt(Instr[i].quantity, Zero)
                            /\ MeetsRounding(Signed(Instr[i]), RawDelta(t))
                            /\ ~RLt(Instr[i].quantity, tolerance)
                 ELSE IF RGt(get_quantity(live_portfolio, t), tolerance)
                 THEN \E i \in InstrOf(t) :
                          /\ Instr[i].transaction_type = SELL
                          /\ REq(Instr[i].quantity, get_quantity(live_portfolio, t))
                 ELSE InstrOf(t) = {}
           /\ (live_portfolio.positions = <<>>
                 /\ (options.allow_fractional_shares \/ WholeQuantities(model_portfolio))
                 /\ \A i \in 1..Len(model_portfolio.positions) :
                        ~RLt(model_portfolio.positions[i].quantity, tolerance))
              => /\ Len(Instr) = Len(model_portfolio.positions)
                 /\ \A i \in 1..Len(Instr) :
                       /\ Instr[i].transaction_type = BUY
                       /\ Instr[i].ticker = model_portfolio.positions[i].ticker
                       /\ REq(Instr[i].quantity, model_portfolio.positions[i].quantity)

\* a run without exchanges and with rounding that returns a BUY and a SELL
C3_Witness ==
    /\ Returned("build_rebalance_instructions")
    /\ ~options.allow_share_exchanges /\ ~options.allow_fractional_shares
    /\ \E i, j \in 1..Len(Instr) :
          /\ Instr[i].transaction_type = BUY /\ Instr[j].transaction_type = SELL
          /\ contains_ticker(model_portfolio, Instr[j].ticker)

\* C4: the rounding of a model ticker's delta when fractional shares are
\* disallowed: NEAREST gives the nearest whole number with exact halves to
\* the even one (+1/2 and -1/4 give 0 and no instruction, 5/2 gives 2), UP the
\* ceiling, DOWN the floor.
C4_Rounding ==
    (Returned("build_rebalance_instructions")
        /\ ~options.allow_share_exchanges /\ ~options.allow_fractional_shares)
        => \A t \in Tickers :
              contains_ticker(model_portfolio, t) =>
                 LET d == RawDelta(t)
                     r == SignedQuantity(t)
                 IN  /\ options.rounding_behavior = NEAREST =>
                           /\ IsNearestEven(r, d)
                           /\ (REq(d, Rat(1, 2)) \/ REq(d, Rat(-1, 4)))
                                 => REq(r, Zero) /\ InstrOf(t) = {}
                           /\ REq(d, Rat(5, 2)) => REq(r, Int2Rat(2))
                     /\ options.rounding_behavior = UP =>
                           /\ IsCeiling(r, d)
                           /\ (RGt(d, Zero) /\ ~RIsInt(d)) => RGt(r, d)
                           /\ (RLt(d, Zero) /\ RGt(d, Int2Rat(-1))) => REq(r, Zero)
                     /\ options.rounding_behavior = DOWN => IsFloor(r, d)

\* NEAREST turns a delta of 5/2 into a BUY of 2
C4_Witness ==
    /\ Returned("build_rebalance_instructions")
    /\ ~options.allow_share_exchanges /\ ~options.allow_fractional_shares
    /\ options.rounding_behavior = NEAREST
    /\ \E t \in Tickers :
          /\ contains_ticker(model_portfolio, t)
          /\ REq(RawDelta(t), Rat(5, 2))
          /\ \E i \in InstrOf(t) :
                Instr[i].transaction_type = BUY /\ REq(Instr[i].quantity, Int2Rat(2))

----------------------------------------------------------------------------
(* Exchange matching.                                                      *)

Exchanges == {i \in 1..Len(Instr) : Instr[i].transaction_type = EXCHANGE}

SellValue(i) == RMul(i.quantity, get_price(prices, i.ticker))
BuyValue(i) == RMul(i.counter_quantity, get_price(prices, i.counter_ticker))

\* the delta of ticker t that enters the matching when fractional shares
\* are allowed (zero if it is dropped)
FractionalDelta(t) ==
    IF contains_ticker(model_portfolio, t)
    THEN IF RLt(RAbs(RawDelta(t)), tolerance) THEN Zero ELSE RawDelta(t)
    ELSE IF RGt(get_quantity(live_portfolio, t), tolerance)
    THEN RNeg(get_quantity(live_portfolio, t)) ELSE Zero

RMaxOf(S) == CHOOSE x \in S : \A y \in S : RLe(y, x)
RMin(a, b) == IF RLt(b, a) THEN b ELSE a

\* the largest dollar value among the buys (sign 1) or the sells (sign -1)
LargestValue(sign) ==
    RMaxOf({RAbs(RMul(FractionalDelta(t), get_price(prices, t))) :
               t \in {u \in Tickers : IF sign > 0 THEN RGt(FractionalDelta(u), Zero)
                                                  ELSE RLt(FractionalDelta(u), Zero)}})

\* C5: every EXCHANGE is value-matched: sell quantity x sell price equals buy
\* quantity x buy price, the smaller of the two popped values (for the first
\* round: of the largest buy and the largest sell); so the EXCHANGE sell
\* sides never exceed the buy sides by more than tolerance in total.
C5_ValueMatched ==
    Returned("build_rebalance_instructions")
        => /\ \A i \in Exchanges : REq(SellValue(Instr[i]), BuyValue(Instr[i]))
           /\ RLe(RSub(RSum([i \in 1..Len(Instr) |-> SellValue(Instr[i])], Exchanges),
                       RSum([i \in 1..Len(Instr) |-> BuyValue(Instr[i])], Exchanges)),
                  tolerance)
           /\ (options.allow_fractional_shares /\ 1 \in Exchanges)
              => REq(SellValue(Instr[1]), RMin(LargestValue(1), LargestValue(-1)))

\* C6: no EXCHANGE has its sell ticker equal to its buy (counter) ticker.
C6_NoSelfExchange ==
    Returned("build_rebalance_instructions")
        => \A i \in Exchanges : Instr[i].ticker # Instr[i].counter_ticker

\* two rounds of matching: two EXCHANGEs in one instruction list
C6_Witness ==
    /\ Returned("build_rebalance_instructions")
    /\ Cardinality(Exchanges) >= 2

----------------------------------------------------------------------------
(* Errors.                                                                 *)

EngineOps == {"build_rebalance_instructions", "build_rebalanced_portfolio", "validate"}

\* C7: the three operations fail with the portfolios-not-set error exactly
\* when the live or the model portfolio was never set; a portfolio that was
\* set without positions is accepted.
C7_PortfoliosNotSet ==
    result.op \in EngineOps => (result.err = PortfoliosNotSet <=> ~BothSet)

\* an empty live portfolio was set and the call returned
C7_Witness ==
    /\ Returned("build_rebalance_instructions")
    /\ BothSet /\ live_portfolio.positions = <<>>
    /\ Len(Instr) > 0

\* C8: with fractional shares disallowed and no rounding behaviour, the call
\* fails with the rounding-behavior-required error and returns no
\* instructions, for every live and model portfolio.
C8_RoundingRequired ==
    (result.op = "build_rebalance_instructions" /\ BothSet
        /\ ~options.allow_fractional_shares
        /\ options.rounding_behavior \notin RoundingBehavior)
        => result.err = RoundingRequired /\ Instr = <<>>

\* C9: a failure of build_rebalance_instructions comes before any instruction
\* was produced, and leaves the live and the model portfolio as they were.
C9_NoPartialSuccess ==
    [][(result'.op = "build_rebalance_instructions" /\ result'.err # None)
          => /\ result'.instructions = <<>>
             /\ live_portfolio' = live_portfolio
             /\ model_portfolio' = model_portfolio]_vars

\* the exchange matching failed on the unpriced ticker, with a priced buy
\* and a priced sell waiting to be matched
C9_Witness ==
    /\ result.op = "build_rebalance_instructions"
    /\ result.err = UnknownTicker
    /\ \E t, u \in DOMAIN prices :
          RGt(FractionalDelta(t), Zero) /\ RLt(FractionalDelta(u), Zero)

SameHoldings ==
    /\ \A t \in Tickers : contains_ticker(live_portfolio, t) <=> contains_ticker(model_portfolio, t)
    /\ \A t \in Tickers : REq(get_quantity(live_portfolio, t), get_quantity(model_portfolio, t))

\* C10: when the live portfolio holds the model's tickers with the model's
\* quantities, the call returns an empty list under every combination of
\* the two flags and the rounding behaviours UP, DOWN, NEAREST.
C10_NoRebalanceNeeded ==
    (result.op = "build_rebalance_instructions" /\ BothSet /\ SameHoldings
        /\ (options.allow_fractional_shares \/ options.rounding_behavior \in RoundingBehavior))
        => result.err = None /\ Instr = <<>>

\* equal fractional holdings of two tickers, rounding UP, exchanges allowed
C10_Witness ==
    /\ Returned("build_rebalance_instructions")
    /\ SameHoldings /\ Len(live_portfolio.positions) >= 2
    /\ ~WholeQuantities(live_portfolio)
    /\ options.allow_share_exchanges /\ ~options.allow_fractional_shares
    /\ options.rounding_behavior = UP

----------------------------------------------------------------------------
(* The rebalanced portfolio and the sign of the quantities.                *)

\* a quantity q of ticker t after instruction i: a BUY of t adds its
\* quantity, a SELL or EXCHANGE of t subtracts it, an EXCHANGE into t adds
\* its counter quantity
Bought(q, i, t) ==
    IF i.transaction_type = EXCHANGE /\ i.counter_ticker = t
    THEN RAdd(q, i.counter_quantity) ELSE q
Traded(q, i, t) ==
    IF i.ticker # t THEN Bought(q, i, t)
    ELSE IF i.transaction_type = BUY THEN RAdd(q, i.quantity)
    ELSE Bought(RSub(q, i.quantity), i, t)

\* what the first n instructions make of the live quantity of ticker t, the
\* instructions taken in the order of the list
RECURSIVE NetAfter(_, _)
NetAfter(t, n) ==
    IF n = 0 THEN get_quantity(live_portfolio, t)
    ELSE Traded(NetAfter(t, n - 1), Instr[n], t)

NetQuantity(t) == NetAfter(t, Len(Instr))

\* C11: the portfolio build_rebalanced_portfolio returns holds for every
\* ticker the live quantity plus the BUY and EXCHANGE counter quantities
\* minus the SELL and EXCHANGE sell quantities of the instructions, and
\* holds no entry for a ticker whose resulting quantity is exactly zero.
C11_RebalancedQuantities ==
    Returned("build_rebalanced_portfolio")
        => \A t \in Tickers :
               /\ REq(get_quantity(result.portfolio, t), NetQuantity(t))
               /\ contains_ticker(result.portfolio, t) <=> ~REq(NetQuantity(t), Zero)

\* an EXCHANGE was applied and a ticker held live is gone from the result
C11_Witness ==
    /\ Returned("build_rebalanced_portfolio")
    /\ \E i \in 1..Len(Instr) : Instr[i].transaction_type = EXCHANGE
    /\ \E i \in 1..Len(Instr) : Instr[i].transaction_type = BUY
    /\ \E t \in Tickers : /\ contains_ticker(live_portfolio, t)
                          /\ ~contains_ticker(result.portfolio, t)

\* C12: every quantity of every instruction build_rebalance_instructions
\* returns is non-negative: the quantity of a BUY or SELL and both
\* quantities of an EXCHANGE.
C12_NonNegativeQuantities ==
    Returned("build_rebalance_instructions")
        => \A i \in 1..Len(Instr) :
               /\ RLe(Zero, Instr[i].quantity)
               /\ Instr[i].transaction_type = EXCHANGE
                      => RLe(Zero, Instr[i].counter_quantity)
               /\ Instr[i].transaction_type \in {SELL, EXCHANGE}
                      => RLt(RawDelta(Instr[i].ticker), Zero)

\* a SELL and an EXCHANGE are returned for negative deltas
C12_Witness ==
    /\ Returned("build_rebalance_instructions")
    /\ \E i \in 1..Len(Instr) : Instr[i].transaction_type = SELL
    /\ \E i \in 1..Len(Instr) : Instr[i].transaction_type = EXCHANGE

----------------------------------------------------------------------------
(* The rounds of the exchange matching, followed from the deltas of the    *)
(* current engine.                                                         *)

\* the deltas that enter the matching, in insertion order
MatchingDeltas == LiveDeltas(self, 1, ModelDeltas(self, 1, <<>>).deltas)

\* the matching runs: both portfolios set, exchanges allowed, the model loop
\* and the pricing of the deltas raise nothing
MatchingRuns ==
    /\ BothSet
    /\ options.allow_share_exchanges
    /\ ModelDeltas(self, 1, <<>>).err = None
    /\ PartitionDeltas(self, MatchingDeltas, 1, <<>>, <<>>).err = None

\* the two queues and the instruction list as the first round finds them
MatchingStart ==
    LET part == PartitionDeltas(self, MatchingDeltas, 1, <<>>, <<>>)
    IN  [err |-> None, instructions |-> <<>>,
         buys |-> heapify(part.buys), sells |-> heapify(part.sells)]

Entries(heap) == {heap[i] : i \in 1..Len(heap)}
EntryValue(e) == RNeg(e.neg_value)
IsLargest(heap, e) ==
    e \in Entries(heap) /\ \A o \in Entries(heap) : RLe(EntryValue(o), EntryValue(e))

\* what is left of the larger side: the popped entry e goes, and comes back
\* with the residual exactly when residual / value of e exceeds tolerance
LargerSideAfter(heap, e, residual) ==
    (Entries(heap) \ {e})
        \cup (IF RGt(RDiv(residual, EntryValue(e)), tolerance)
              THEN {HeapEntry(RNeg(residual), e.ticker)} ELSE {})

\* one round from st to nxt, stated on the contents of the queues; the
\* EXCHANGE of a value carries that value divided by either price
RoundAsSpecified(st, nxt) ==
    /\ nxt.err = None
    /\ Len(nxt.instructions) = Len(st.instructions) + 1
    /\ SubSeq(nxt.instructions, 1, Len(st.instructions)) = st.instructions
    /\ Len(nxt.buys) = Cardinality(Entries(nxt.buys))
    /\ Len(nxt.sells) = Cardinality(Entries(nxt.sells))
    /\ LET x == nxt.instructions[Len(nxt.instructions)]
       IN  /\ x.transaction_type = EXCHANGE
           /\ \E b \in Entries(st.buys), s \in Entries(st.sells) :
                 /\ IsLargest(st.buys, b) /\ IsLargest(st.sells, s)
                 /\ x.ticker = s.ticker /\ x.counter_ticker = b.ticker
                 /\ REq(x.quantity, RDiv(RMin(EntryValue(b), EntryValue(s)),
                                         get_price(prices, s.ticker)))
                 /\ REq(x.counter_quantity, RDiv(RMin(EntryValue(b), EntryValue(s)),
                                                 get_price(prices, b.ticker)))
                 /\ IF RGt(EntryValue(s), EntryValue(b))
                    THEN /\ Entries(nxt.buys) = Entries(st.buys) \ {b}
                         /\ Entries(nxt.sells) =
                                LargerSideAfter(st.sells, s, RSub(EntryValue(s), EntryValue(b)))
                    ELSE IF RGt(EntryValue(b), EntryValue(s))
                    THEN /\ Entries(nxt.sells) = Entries(st.sells) \ {s}
                         /\ Entries(nxt.buys) =
                                LargerSideAfter(st.buys, b, RSub(EntryValue(b), EntryValue(s)))
                    ELSE /\ Entries(nxt.buys) = Entries(st.buys) \ {b}
                         /\ Entries(nxt.sells) = Entries(st.sells) \ {s}

RECURSIVE AllRoundsAsSpecified(_)
AllRoundsAsSpecified(st) ==
    IF Len(st.buys) > 0 /\ Len(st.sells) > 0
    THEN /\ RoundAsSpecified(st, ExchangeStep(self, st))
         /\ AllRoundsAsSpecified(ExchangeStep(self, st))
    ELSE TRUE

\* one buy and one sell of equal value enter the matching
SinglePairOfEqualValue ==
    /\ Len(MatchingStart.buys) = 1 /\ Len(MatchingStart.sells) = 1
    /\ REq(EntryValue(MatchingStart.buys[1]), EntryValue(MatchingStart.sells[1]))

\* C17: every round of the matching pops a largest-value buy and a
\* largest-value sell and appends one EXCHANGE of the smaller of the two
\* values; the smaller side is consumed and the larger side comes back under
\* its ticker with the residual exactly when residual / its value before the
\* round exceeds tolerance.  One buy and one sell of equal value give exactly
\* one EXCHANGE and no BUY or SELL.
C17_ExchangeRound ==
    (result.op = "build_rebalance_instructions" /\ MatchingRuns)
        => /\ AllRoundsAsSpecified(MatchingStart)
           /\ SinglePairOfEqualValue
                  => /\ Len(Instr) = 1
                     /\ Instr[1].transaction_type = EXCHANGE

\* two rounds re-queued their larger side: two EXCHANGEs sell the same
\* ticker and a SELL of it takes what the second left
C17_Witness ==
    /\ Returned("build_rebalance_instructions") /\ MatchingRuns
    /\ Len(Instr) = 3
    /\ Instr[1].transaction_type = EXCHANGE /\ Instr[2].transaction_type = EXCHANGE
    /\ Instr[3].transaction_type = SELL
    /\ Instr[1].ticker = Instr[2].ticker /\ Instr[2].ticker = Instr[3].ticker

\* a round dropped a residual that was not zero: one buy and one sell of
\* different values gave one EXCHANGE and nothing else
C17_WitnessDropped ==
    /\ Returned("build_rebalance_instructions") /\ MatchingRuns
    /\ Len(MatchingStart.buys) = 1 /\ Len(MatchingStart.sells) = 1
    /\ ~REq(EntryValue(MatchingStart.buys[1]), EntryValue(MatchingStart.sells[1]))
    /\ Len(Instr) = 1

\* one buy and one sell of equal value were matched
C17_WitnessEqualPair ==
    /\ Returned("build_rebalance_instructions") /\ MatchingRuns
    /\ SinglePairOfEqualValue

\* the two queues as the matching loop leaves them
MatchingEnd == ExchangeLoop(self, MatchingStart)

\* instruction i is the BUY (sign 1) or SELL (sign -1) of an entry left on
\* heap: its ticker, and its value divided by the ticker's price
IsResidualOf(i, heap) ==
    \E e \in Entries(heap) :
        /\ i.ticker = e.ticker
        /\ REq(i.quantity, RDiv(EntryValue(e), get_price(prices, e.ticker)))

\* C18: with exchanges allowed the matching stops only when one side is
\* empty, so the returned list never holds both a BUY and a SELL, and each
\* BUY or SELL has the quantity of the residual value left of its ticker
\* divided by the ticker's price.
C18_OneSidedResidue ==
    (Returned("build_rebalance_instructions") /\ MatchingRuns)
        => /\ Len(MatchingEnd.buys) = 0 \/ Len(MatchingEnd.sells) = 0
           /\ ~(/\ \E i \in 1..Len(Instr) : Instr[i].transaction_type = BUY
                /\ \E i \in 1..Len(Instr) : Instr[i].transaction_type = SELL)
           /\ Len(Instr) - Cardinality(Exchanges)
                  = Len(MatchingEnd.buys) + Len(MatchingEnd.sells)
           /\ \A i \in 1..Len(Instr) :
                 /\ Instr[i].transaction_type = BUY
                        => IsResidualOf(Instr[i], MatchingEnd.buys)
                 /\ Instr[i].transaction_type = SELL
                        => IsResidualOf(Instr[i], MatchingEnd.sells)

\* buys and sells entered the matching and a residual SELL is left after an
\* EXCHANGE of the same ticker
C18_Witness ==
    /\ Returned("build_rebalance_instructions") /\ MatchingRuns
    /\ Len(MatchingStart.buys) + Len(MatchingStart.sells) >= 3
    /\ \E i \in Exchanges : \E j \in 1..Len(Instr) :
          /\ Instr[j].transaction_type = SELL
          /\ Instr[j].ticker = Instr[i].ticker
          /\ RLt(Instr[j].quantity, get_quantity(live_portfolio, Instr[j].ticker))

\* every round leaves fewer entries on the two queues taken together
RECURSIVE EveryRoundShrinks(_)
EveryRoundShrinks(st) ==
    IF Len(st.buys) > 0 /\ Len(st.sells) > 0
    THEN /\ Len(ExchangeStep(self, st).buys) + Len(ExchangeStep(self, st).sells)
                < Len(st.buys) + Len(st.sells)
         /\ EveryRoundShrinks(ExchangeStep(self, st))
    ELSE TRUE

\* C19: the matching ends: every round removes at least one entry from the
\* two queues taken together, and from b buys and s sells it emits at most
\* b + s - 1 EXCHANGEs (none when a side is empty).
C19_MatchingTerminates ==
    (result.op = "build_rebalance_instructions" /\ MatchingRuns)
        => /\ EveryRoundShrinks(MatchingStart)
           /\ result.err = None
           /\ Cardinality(Exchanges)
                  <= IF Len(MatchingStart.buys) > 0 /\ Len(MatchingStart.sells) > 0
                     THEN Len(MatchingStart.buys) + Len(MatchingStart.sells) - 1
                     ELSE 0

\* the bound is met: three deltas, two EXCHANGEs
C19_Witness ==
    /\ Returned("build_rebalance_instructions") /\ MatchingRuns
    /\ Len(MatchingStart.buys) + Len(MatchingStart.sells) = 3
    /\ Cardinality(Exchanges) = 2

\* the place of ticker t in the insertion order of the deltas
InsertionIndex(t) == CHOOSE i \in 1..Len(MatchingDeltas) : MatchingDeltas[i].k = t

\* among the entries of largest value on a queue, the one inserted first
FirstInsertedLargest(heap) ==
    CHOOSE e \in Entries(heap) :
        /\ IsLargest(heap, e)
        /\ \A o \in Entries(heap) :
               IsLargest(heap, o) => InsertionIndex(e.ticker) <= InsertionIndex(o.ticker)

\* C20: among entries of equal dollar value on one side of the matching the
\* one whose delta was inserted first (model tickers in model order, then
\* live-only tickers in live order) is popped first: the first EXCHANGE
\* sells the first-inserted largest sell and buys the first-inserted
\* largest buy.
C20_TieInsertionOrder ==
    (Returned("build_rebalance_instructions") /\ MatchingRuns /\ 1 \in Exchanges)
        => /\ Instr[1].ticker = FirstInsertedLargest(MatchingStart.sells).ticker
           /\ Instr[1].counter_ticker = FirstInsertedLargest(MatchingStart.buys).ticker

----------------------------------------------------------------------------
(* The containers.                                                         *)

NoZeroStored(p) == \A i \in 1..Len(p.positions) : ~REq(p.positions[i].quantity, Zero)

\* the portfolios the model builder and build_rebalanced_portfolio return
\* hold no zero quantity
ProducedWithoutZero ==
    (result.op \in {"generate_model_portfolio", "build_rebalanced_portfolio"}
         /\ result.err = None)
        => NoZeroStored(result.portfolio)

\* C13: no Portfolio holds a position of quantity exactly zero: not after
\* any sequence of add_position calls, and not when it is returned by the
\* model builder or by build_rebalanced_portfolio.
C13_NoZeroStored ==
    /\ NoZeroStored(built_portfolio)
    /\ ProducedWithoutZero

\* what a container holds for ticker u, in the three containers: <<v>> for
\* the value v, <<>> for no entry
StoredPosition(p, u) == IF contains_ticker(p, u) THEN <<get_quantity(p, u)>> ELSE <<>>
StoredPercentage(b, u) ==
    IF has_model_position(b, u)
    THEN <<b.model_positions[CHOOSE i \in 1..Len(b.model_positions) :
                                 b.model_positions[i].ticker = u].target_percentage>>
    ELSE <<>>
StoredPrice(pr, u) == IF has_price(pr, u) THEN <<get_price(pr, u)>> ELSE <<>>

\* an add of value v under ticker t with outcome err takes the stored values
\* from before to after: refused and nothing changed if t was present,
\* stored under t and nothing else changed if it was absent
AddAsSpecified(before, after, t, v, err) ==
    IF before[t] # <<>>
    THEN err = DuplicateTicker /\ after = before
    ELSE err = None /\ after = [before EXCEPT ![t] = <<v>>]

\* C14: adding a ticker that is present fails with the duplicate-ticker
\* error and leaves the container as it was; adding an absent ticker stores
\* it; for Portfolio.add_position, ModelPortfolioBuilder.add_model_position
\* and PriceLookup.add_price.
C14_DuplicateRefused ==
    [][/\ result'.op = "add_position"
          => /\ AddAsSpecified([u \in ContainerTickers |-> StoredPosition(built_portfolio, u)],
                               [u \in ContainerTickers |-> StoredPosition(built_portfolio', u)],
                               result'.ticker, result'.value, result'.err)
             /\ result'.err # None => built_portfolio' = built_portfolio
       /\ result'.op = "add_model_position"
          => /\ AddAsSpecified([u \in ContainerTickers |-> StoredPercentage(builder, u)],
                               [u \in ContainerTickers |-> StoredPercentage(builder', u)],
                               result'.ticker, result'.value, result'.err)
             /\ result'.err # None => builder' = builder
       /\ result'.op = "add_price"
          => /\ AddAsSpecified([u \in ContainerTickers |-> StoredPrice(prices, u)],
                               [u \in ContainerTickers |-> StoredPrice(prices', u)],
                               result'.ticker, result'.value, result'.err)
             /\ result'.err # None => prices' = prices
      ]_vars

\* an add_position was refused and the quantity stored before is kept
C14_Witness ==
    /\ result.op = "add_position" /\ result.err = DuplicateTicker
    /\ contains_ticker(built_portfolio, result.ticker)
    /\ ~REq(get_quantity(built_portfolio, result.ticker), result.value)
    /\ Len(built_portfolio.positions) = 2

\* the sum of the target percentages of the builder
PercentagesTotal ==
    RSum([i \in 1..Len(builder.model_positions) |-> builder.model_positions[i].target_percentage],
         1..Len(builder.model_positions))

OffBy == RAbs(RSub(PercentagesTotal, Int2Rat(100)))

UnpricedModelTickers ==
    {t \in ContainerTickers : has_model_position(builder, t) /\ ~has_price(prices, t)}

\* C15: generate_model_portfolio fails with the percentages error exactly
\* when |sum of the target percentages - 100| > tolerance: a sum at the
\* tolerance is accepted, and the error comes before any price lookup, so
\* also when a model ticker has no price.
C15_PercentageCheck ==
    result.op = "generate_model_portfolio"
        => /\ result.err = PercentagesNotSum100 <=> RGt(OffBy, builder.tolerance)
           /\ result.err = UnknownTicker
                  <=> (~RGt(OffBy, builder.tolerance) /\ UnpricedModelTickers # {})

\* a sum exactly at the tolerance was accepted
C15_Witness ==
    /\ result.op = "generate_model_portfolio"
    /\ REq(OffBy, builder.tolerance)
    /\ result.err = None
    /\ Len(result.portfolio.positions) = 2

\* the percentages error was raised although a model ticker has no price
C15_WitnessPrecedence ==
    /\ result.op = "generate_model_portfolio"
    /\ result.err = PercentagesNotSum100
    /\ UnpricedModelTickers # {}

\* (target value * percentage / 100) / price for the model position of t
TargetQuantity(t) ==
    RDiv(RMul(builder.target_value, StoredPercentage(builder, t)[1]),
         RMul(Int2Rat(100), get_price(prices, t)))

\* C16: when the percentage check passes (and every model ticker has a
\* price), generate_model_portfolio returns a portfolio that holds for each
\* model position the quantity (target value * percentage / 100) / price if
\* that is strictly positive, and no entry otherwise.
C16_ModelQuantities ==
    (result.op = "generate_model_portfolio" /\ ~RGt(OffBy, builder.tolerance)
         /\ UnpricedModelTickers = {})
        => /\ result.err = None
           /\ ~result.portfolio.is_none
           /\ \A t \in ContainerTickers :
                 IF has_model_position(builder, t) /\ RGt(TargetQuantity(t), Zero)
                 THEN /\ contains_ticker(result.portfolio, t)
                      /\ REq(get_quantity(result.portfolio, t), TargetQuantity(t))
                 ELSE ~contains_ticker(result.portfolio, t)

\* {AAA: 50%, BBB: 50%}, prices {AAA: 100, BBB: 200}, target 4000 gives
\* {AAA: 20, BBB: 10}
C16_Witness ==
    /\ result.op = "generate_model_portfolio" /\ result.err = None
    /\ REq(builder.target_value, Int2Rat(4000))
    /\ all_tickers(result.portfolio) = <<"AAA", "BBB">>
    /\ \A i \in 1..Len(builder.model_positions) :
          /\ builder.model_positions[i].ticker = all_tickers(result.portfolio)[i]
          /\ REq(builder.model_positions[i].target_percentage, Int2Rat(50))
    /\ has_price(prices, "AAA") /\ REq(get_price(prices, "AAA"), Int2Rat(100))
    /\ has_price(prices, "BBB") /\ REq(get_price(prices, "BBB"), Int2Rat(200))
    /\ REq(get_quantity(result.portfolio, "AAA"), Int2Rat(20))
    /\ REq(get_quantity(result.portfolio, "BBB"), Int2Rat(10))

\* a model position of percentage 0 passed the check and got no entry
C16_WitnessZeroDropped ==
    /\ result.op = "generate_model_portfolio" /\ result.err = None
    /\ Len(builder.model_positions) = 2
    /\ Len(result.portfolio.positions) = 1

-----------------------------------------------------------------------------
(* validate against a second pass of the engine's own computation.         *)

\* the engine's computation run again with the rebalanced portfolio as the
\* live portfolio: same prices, options, tolerance and model portfolio
SecondPass ==
    build_rebalance_instructions(
        Engine(prices, options, tolerance, result.portfolio, model_portfolio))

ValidateRan == result.op = "validate" /\ result.err \in {None, DidNotConverge}

\* C21: validate fails with the did-not-converge error exactly when the same
\* computation as this engine (same prices, options, tolerance and model
\* portfolio) run on the rebalanced portfolio returns a non-empty list.
C21_ValidateSameTolerance ==
    (ValidateRan /\ SecondPass.err = None)
        => (result.err = DidNotConverge <=> Len(SecondPass.instructions) > 0)

-----------------------------------------------------------------------------
(* Whole shares.                                                           *)

\* C22: when fractional shares are disallowed every quantity of every
\* returned instruction is a whole number of shares: BUY and SELL quantities,
\* the SELLs that liquidate live-only tickers, both quantities of an EXCHANGE.
C22_WholeShares ==
    (Returned("build_rebalance_instructions") /\ ~options.allow_fractional_shares)
        => \A i \in 1..Len(Instr) :
              /\ RIsInt(Instr[i].quantity)
              /\ Instr[i].transaction_type = EXCHANGE => RIsInt(Instr[i].counter_quantity)

-----------------------------------------------------------------------------
(* Dust suppression.                                                       *)

\* the delta of ticker t before the tolerance filter: model - live, rounded
\* as the options say, for a model ticker; minus the holding otherwise
FilteredDelta(t) ==
    IF contains_ticker(model_portfolio, t)
    THEN RoundDelta(options, RawDelta(t)).delta
    ELSE RNeg(get_quantity(live_portfolio, t))

Mentions(t) ==
    \E i \in 1..Len(Instr) : Instr[i].ticker = t \/ Instr[i].counter_ticker = t

NoDustQuantity ==
    \A i \in 1..Len(Instr) :
        Instr[i].transaction_type \in {BUY, SELL} => ~RLt(Instr[i].quantity, tolerance)

DroppedWhenBelow ==
    \A t \in Tickers : ~Mentions(t) <=> RLt(RAbs(FilteredDelta(t)), tolerance)

\* C23: no returned BUY or SELL has a quantity below the tolerance, with or
\* without exchange matching, and a delta is dropped exactly when its
\* absolute value is strictly below the tolerance, for model tickers and
\* for live-only tickers alike.
C23_DustSuppression ==
    Returned("build_rebalance_instructions") => NoDustQuantity /\ DroppedWhenBelow

-----------------------------------------------------------------------------
(* Frame of the engine's operations.                                       *)

\* C24: the engine never mutates a portfolio it did not build: a call of
\* build_rebalance_instructions, build_rebalanced_portfolio or validate
\* leaves the entries of the live portfolio, of the model portfolio and of
\* the price lookup as they were, and the Portfolio that
\* build_rebalanced_portfolio returns is a new object: neither the object
\* the live attribute holds nor the one the model attribute holds.
C24_InputsNotMutated ==
    [][result'.op \in EngineOps
          => /\ live_portfolio' = live_portfolio
             /\ model_portfolio' = model_portfolio
             /\ prices' = prices
             /\ (result'.op = "build_rebalanced_portfolio" /\ result'.err = None)
                   => /\ result'.object # NoObject
                      /\ result'.object # LiveObject(self)
                      /\ result'.object # ModelObject(self)]_vars

\* one Portfolio object was given as live and as model, and the rebalanced
\* portfolio returned holds the very positions it holds: three equal
\* values, two objects
C24_Witness ==
    /\ Returned("build_rebalanced_portfolio")
    /\ live_is_model
    /\ Len(live_portfolio.positions) > 0
    /\ result.portfolio = live_portfolio
    /\ result.portfolio = model_portfolio
    /\ LiveObject(self) = ModelObject(self)
    /\ result.object \notin {NoObject, LiveObject(self), ModelObject(self)}

-----------------------------------------------------------------------------
(* Conservation of each ticker's value by the exchange matching.           *)

\* the dollar value of the delta of ticker t as it enters the matching
EnteringValue(t) == RAbs(RMul(DictGet(MatchingDeltas, t), get_price(prices, t)))

\* the dollar value of the leg of ticker t in the EXCHANGE i: its quantity
\* at its price
LegValue(i, t) == IF i.ticker = t THEN SellValue(i) ELSE BuyValue(i)

\* the dollar value of the legs of the EXCHANGEs that ticker t takes part in
ExchangedValue(t) ==
    RSum([i \in 1..Len(Instr) |-> LegValue(Instr[i], t)],
         {i \in Exchanges : Instr[i].ticker = t \/ Instr[i].counter_ticker = t})

\* the dollar value of the BUY and SELL instructions on ticker t
ResidualValue(t) ==
    RSum([i \in 1..Len(Instr) |-> SellValue(Instr[i])],
         {i \in InstrOf(t) : Instr[i].transaction_type \in {BUY, SELL}})

\* the dollar value the instructions move of ticker t: legs and residual
MovedValue(t) == RAdd(ExchangedValue(t), ResidualValue(t))

\* every instruction on ticker t is on the side of the sign of its delta
OnSideOfDelta(t) ==
    \A i \in 1..Len(Instr) :
        IF RLt(DictGet(MatchingDeltas, t), Zero)
        THEN /\ Instr[i].counter_ticker # t
             /\ Instr[i].ticker = t => Instr[i].transaction_type \in {SELL, EXCHANGE}
        ELSE Instr[i].ticker = t => Instr[i].transaction_type = BUY

\* the number of entries of ticker t on the two queues of st
QueuedEntries(st, t) ==
    Cardinality({i \in 1..Len(st.buys) : st.buys[i].ticker = t})
        + Cardinality({i \in 1..Len(st.sells) : st.sells[i].ticker = t})

\* at every point of the loop a ticker is queued at most once, and only a
\* ticker with a delta is queued
RECURSIVE QueuedAtMostOnce(_)
QueuedAtMostOnce(st) ==
    /\ \A t \in Tickers :
          QueuedEntries(st, t) <= IF DictHas(MatchingDeltas, t) THEN 1 ELSE 0
    /\ IF Len(st.buys) > 0 /\ Len(st.sells) > 0
       THEN QueuedAtMostOnce(ExchangeStep(self, st))
       ELSE TRUE

\* C26: under exchange matching, for every ticker with a surviving delta d
\* of dollar value v = |d| * price, the value of its EXCHANGE legs plus its
\* residual BUY/SELL is at most v and at least (1 - tolerance) * v, all its
\* legs are on the side of the sign of d, and at every point of the loop
\* the ticker is at most once on the two queues taken together.
C26_TickerConservation ==
    (Returned("build_rebalance_instructions") /\ MatchingRuns)
        => /\ \A t \in Tickers :
                 DictHas(MatchingDeltas, t)
                     => /\ RLe(MovedValue(t), EnteringValue(t))
                        /\ RLe(RMul(RSub(Int2Rat(1), tolerance), EnteringValue(t)),
                               MovedValue(t))
                        /\ OnSideOfDelta(t)
           /\ QueuedAtMostOnce(MatchingStart)

-----------------------------------------------------------------------------
(* Overselling.                                                            *)

\* C27: the quantity sold of a ticker, SELLs and the sell side of EXCHANGEs
\* together, never exceeds the live quantity held of it, so the portfolio
\* build_rebalanced_portfolio returns holds no negative quantity, under
\* every rounding behavior and with or without exchanges.
C27_NoOverselling ==
    /\ Returned("build_rebalance_instructions")
          => \A t \in Tickers :
                 RLe(SoldQuantity(Instr, t), get_quantity(live_portfolio, t))
    /\ Returned("build_rebalanced_portfolio")
          => \A t \in Tickers : RLe(Zero, get_quantity(result.portfolio, t))

====
